---- MODULE Spec2Model ----
\* A model of the conversational flow engine of the Verador chatbot:
\* ChatbotService (the orchestrator), ConversationStateService (the session
\* store and message log), FlowService (the step registry) and
\* ValidationService (input validation and control keywords).
\*
\* Texts are sequences of tokens.  A token is one character ("a", "1", " ")
\* or, for the fixed literals of the program (reply texts, emoji), one
\* multi-character run that no operation of the program splits.
EXTENDS Integers, Sequences, FiniteSets, TLC

VARIABLES conversations, messageHistory, flows, now, turns, last, trail, inflight

vars == <<conversations, messageHistory, flows, now, turns, last, trail, inflight>>

\* ------------------------------------------------------------------ bounds

\* Calls of processMessage explored in one behaviour.
MaxTurns == 4

\* Direct calls of the store's operations explored in one behaviour.
MaxOps == 6

\* The number of addMessage calls of a run of the message log.
MaxLog == 54

\* The time horizon of a behaviour, in milliseconds: room for one inactivity
\* timeout besides the turns.
MaxTime == 1808001

\* ------------------------------------------------------- program constants

DEBOUNCE_TIME == 2000

MAX_ATTEMPTS == 3

CONVERSATION_TIMEOUT == 1800000

MESSAGE_LOG_CAP == 50

INPUT_CAP == 1000

Users == {"u1"}

\* ------------------------------------------------------------ text helpers

UpperChars == <<"A","B","C","D","E","F","G","H","I","J","K","L","M",
                "N","O","P","Q","R","S","T","U","V","W","X","Y","Z">>

LowerChars == <<"a","b","c","d","e","f","g","h","i","j","k","l","m",
                "n","o","p","q","r","s","t","u","v","w","x","y","z">>

Digits == <<"0","1","2","3","4","5","6","7","8","9">>

IsDigit(c) == \E i \in DOMAIN Digits : Digits[i] = c

DigitValue(c) == (CHOOSE i \in DOMAIN Digits : Digits[i] = c) - 1

IsSpace(c) == c \in {" ", "\t", "\n"}

toLowerChar(c) ==
    IF \E i \in DOMAIN UpperChars : UpperChars[i] = c
    THEN LowerChars[CHOOSE i \in DOMAIN UpperChars : UpperChars[i] = c]
    ELSE c

\* String.prototype.toLowerCase
toLowerCase(s) == [i \in DOMAIN s |-> toLowerChar(s[i])]

RECURSIVE trimStart(_)
trimStart(s) ==
    IF s # <<>> /\ IsSpace(Head(s)) THEN trimStart(Tail(s)) ELSE s

RECURSIVE trimEnd(_)
trimEnd(s) ==
    IF s # <<>> /\ IsSpace(s[Len(s)]) THEN trimEnd(SubSeq(s, 1, Len(s) - 1)) ELSE s

\* String.prototype.trim
trim(s) == trimEnd(trimStart(s))

\* String.prototype.includes
includes(text, part) ==
    \E i \in 1..(Len(text) - Len(part) + 1) :
        SubSeq(text, i, i + Len(part) - 1) = part

\* String.prototype.substring(0, n)
substring0(s, n) == IF Len(s) > n THEN SubSeq(s, 1, n) ELSE s

\* The digits at the front of s.
RECURSIVE leadingDigits(_)
leadingDigits(s) ==
    IF s # <<>> /\ IsDigit(Head(s)) THEN <<Head(s)>> \o leadingDigits(Tail(s)) ELSE <<>>

RECURSIVE digitsValue(_)
digitsValue(d) ==
    IF d = <<>> THEN 0 ELSE 10 * digitsValue(SubSeq(d, 1, Len(d) - 1)) + DigitValue(d[Len(d)])

\* parseInt(s): leading white space, an optional sign, then the longest run of
\* digits; NaN when there is no digit there.
parseInt(s) ==
    LET t == trimStart(s)
        signed == t # <<>> /\ Head(t) \in {"+", "-"}
        body == IF signed THEN Tail(t) ELSE t
        d == leadingDigits(body)
    IN IF d = <<>> THEN [nan |-> TRUE, value |-> 0]
       ELSE [nan |-> FALSE,
             value |-> IF signed /\ Head(t) = "-" THEN 0 - digitsValue(d) ELSE digitsValue(d)]

\* /^[1-9]\d*$/.test(s)
isPositiveIntegerString(s) ==
    /\ s # <<>>
    /\ IsDigit(s[1]) /\ s[1] # "0"
    /\ \A i \in DOMAIN s : IsDigit(s[i])

Min(S) == CHOOSE x \in S : \A y \in S : x <= y

startsAt(s, i, p) == i + Len(p) - 1 <= Len(s) /\ SubSeq(s, i, i + Len(p) - 1) = p

IsWordChar(c) ==
    \/ IsDigit(c)
    \/ c = "_"
    \/ \E i \in DOMAIN UpperChars : UpperChars[i] = c \/ LowerChars[i] = c

\* ------------------------------------------------------- ValidationService

Text(token) == <<token>>

ScriptOpen == <<"<","s","c","r","i","p","t">>

ScriptClose == <<"<","/","s","c","r","i","p","t",">">>

\* replace(/<script\b[^<]*(?:(?!<\/script>)<[^<]*)*<\/script>/gi, ''): every
\* run from "<script" at a word boundary to the first "</script>" after it.
RECURSIVE removeScripts(_)
removeScripts(s) ==
    LET low == toLowerCase(s)
        closes(i) == {j \in (i + 7)..Len(s) : startsAt(low, j, ScriptClose)}
        opens == {i \in DOMAIN s : /\ startsAt(low, i, ScriptOpen)
                                   /\ i + 7 <= Len(s)
                                   /\ ~IsWordChar(low[i + 7])
                                   /\ closes(i) # {}}
    IN IF opens = {} THEN s
       ELSE LET i == Min(opens)
                j == Min(closes(i))
            IN SubSeq(s, 1, i - 1) \o removeScripts(SubSeq(s, j + 9, Len(s)))

\* replace(/[<>]/g, '')
removeAngleBrackets(s) == SelectSeq(s, LAMBDA c : c \notin {"<", ">"})

sanitizeInput(input) ==
    substring0(removeAngleBrackets(removeScripts(trim(input))), INPUT_CAP)

normalizeInput(input) == toLowerCase(trim(input))

backKeywords ==
    { <<"v","o","l","t","a","r">>, <<"a","n","t","e","r","i","o","r">>,
      <<"0">>, <<"b","a","c","k">> }

restartKeywords ==
    { <<"i","n","i","c","i","o">>, <<"i","n","i","c","i","a","r">>,
      <<"r","e","c","o","m","e","c","a","r">>, <<"r","e","s","t","a","r","t">>,
      <<"s","t","a","r","t">>, <<"#">> }

\* isControlKeyword looking for a keyword anywhere in the input.
isControlKeywordContaining(input) ==
    LET normalized == normalizeInput(input)
    IN IF \E keyword \in backKeywords : includes(normalized, keyword)
       THEN [type |-> "back", keyword |-> normalized]
       ELSE IF \E keyword \in restartKeywords : includes(normalized, keyword)
       THEN [type |-> "restart", keyword |-> normalized]
       ELSE [type |-> "null", keyword |-> normalized]

isControlKeyword(input) ==
    LET normalized == normalizeInput(input)
    IN IF normalized \in backKeywords THEN [type |-> "back", keyword |-> normalized]
       ELSE IF normalized \in restartKeywords THEN [type |-> "restart", keyword |-> normalized]
       ELSE [type |-> "null", keyword |-> normalized]

\* A ValidationRule.  An absent optional field is the value the code's tests
\* treat as absent: required TRUE (only an explicit false lifts it), minLength
\* and maxLength 0, pattern and customValidator "none", errorMessage <<>>.
NoRule ==
    [present |-> FALSE, type |-> "text", required |-> TRUE, minLength |-> 0,
     maxLength |-> 0, pattern |-> "none", customValidator |-> "none",
     errorMessage |-> <<>>]

\* RegExp.prototype.test for the patterns a rule of the model carries.
testPattern(pattern, s) ==
    CASE pattern = "digits" -> s # <<>> /\ \A i \in DOMAIN s : IsDigit(s[i])
      [] OTHER -> TRUE

\* rule.customValidator(value) for the validators a rule of the model carries.
customValidator(name, s) ==
    CASE name = "nonzero" -> s # <<"0">>
      [] OTHER -> TRUE

\* Whether rule.customValidator(value) raises instead of returning.
customValidatorThrows(name, s) ==
    \/ name = "throws"
    \/ name = "throwsOnNine" /\ s = <<"9">>

orDefault(errorMessage, default) == IF errorMessage # <<>> THEN errorMessage ELSE Text(default)

Valid == [isValid |-> TRUE, errorMessage |-> <<>>]

Invalid(rule, default) == [isValid |-> FALSE, errorMessage |-> orDefault(rule.errorMessage, default)]

\* A call that raised a fault instead of returning: the value stands for the
\* exception that leaves the function.
Fault == [fault |-> TRUE]

isFault(returned) == "fault" \in DOMAIN returned

\* isNaN(Number(s)) is false: an optional sign, digits with at most one
\* decimal point, at least one digit.
isNumberString(s) ==
    LET body == IF s # <<>> /\ Head(s) \in {"+", "-"} THEN Tail(s) ELSE s
    IN /\ \A i \in DOMAIN body : IsDigit(body[i]) \/ body[i] = "."
       /\ Cardinality({i \in DOMAIN body : body[i] = "."}) <= 1
       /\ \E i \in DOMAIN body : IsDigit(body[i])

validateNumber(input, rule) ==
    IF ~isNumberString(input) THEN Invalid(rule, "Por favor, digite apenas numeros.")
    ELSE IF rule.pattern # "none" /\ ~testPattern(rule.pattern, input)
         THEN Invalid(rule, "Formato de numero invalido.")
    ELSE Valid

\* /^[^\s@]+@[^\s@]+\.[^\s@]+$/
matchesEmail(s) ==
    /\ \A i \in DOMAIN s : ~IsSpace(s[i])
    /\ Cardinality({i \in DOMAIN s : s[i] = "@"}) = 1
    /\ LET at == CHOOSE i \in DOMAIN s : s[i] = "@"
       IN /\ at > 1
          /\ \E d \in (at + 2)..(Len(s) - 1) : s[d] = "."

validateEmail(input, rule) ==
    IF ~matchesEmail(input) THEN Invalid(rule, "Por favor, digite um email valido.")
    ELSE IF rule.pattern # "none" /\ ~testPattern(rule.pattern, input)
         THEN Invalid(rule, "Formato de email invalido.")
    ELSE Valid

\* validatePhone accepting eight to eleven digits.
validatePhoneFromEightDigits(input, rule) ==
    LET cleanPhone == SelectSeq(input, IsDigit)
    IN IF Len(cleanPhone) < 8 \/ Len(cleanPhone) > 11
       THEN Invalid(rule, "Por favor, digite um telefone valido (10 ou 11 digitos).")
       ELSE IF rule.pattern # "none" /\ ~testPattern(rule.pattern, input)
            THEN Invalid(rule, "Formato de telefone invalido.")
       ELSE Valid

validatePhone(input, rule) ==
    LET cleanPhone == SelectSeq(input, IsDigit)
    IN IF Len(cleanPhone) < 10 \/ Len(cleanPhone) > 11
       THEN Invalid(rule, "Por favor, digite um telefone valido (10 ou 11 digitos).")
       ELSE IF rule.pattern # "none" /\ ~testPattern(rule.pattern, input)
            THEN Invalid(rule, "Formato de telefone invalido.")
       ELSE Valid

validateOption(input, rule) ==
    IF isNumberString(input) THEN Valid
    ELSE IF rule.pattern # "none" /\ ~testPattern(rule.pattern, input)
         THEN Invalid(rule, "Opcao invalida. Por favor, escolha uma das opcoes disponiveis.")
    ELSE Valid

validateText(input, rule) ==
    IF rule.pattern # "none" /\ ~testPattern(rule.pattern, input)
    THEN Invalid(rule, "Formato de texto invalido.")
    ELSE Valid

validateCustom(input, rule) ==
    IF rule.customValidator # "none" /\ customValidatorThrows(rule.customValidator, input)
    THEN Fault
    ELSE IF rule.customValidator # "none" /\ ~customValidator(rule.customValidator, input)
    THEN Invalid(rule, "Entrada invalida.")
    ELSE Valid

validateInput(input, rule) ==
    IF trim(input) = <<>>
    THEN IF rule.required # FALSE
         THEN Invalid(rule, "Por favor, digite uma resposta valida.")
         ELSE Valid
    ELSE LET trimmedInput == trim(input)
         IN IF rule.minLength # 0 /\ Len(trimmedInput) < rule.minLength
            THEN Invalid(rule, "A resposta deve ter pelo menos minLength caracteres.")
            ELSE IF rule.maxLength # 0 /\ Len(trimmedInput) > rule.maxLength
            THEN Invalid(rule, "A resposta deve ter no maximo maxLength caracteres.")
            ELSE CASE rule.type = "number" -> validateNumber(trimmedInput, rule)
                   [] rule.type = "email" -> validateEmail(trimmedInput, rule)
                   [] rule.type = "phone" -> validatePhone(trimmedInput, rule)
                   [] rule.type = "option" -> validateOption(trimmedInput, rule)
                   [] rule.type = "custom" -> validateCustom(trimmedInput, rule)
                   [] OTHER -> validateText(trimmedInput, rule)

\* ------------------------------------------------------------- FlowService

\* A FlowStep.  allowBack and allowRestart are TRUE unless the definition
\* sets them to false (the code only ever tests "!== false"); a nextStep is
\* absent, a step id, or a function named by target; action "none" is absent.
WelcomeStep ==
    [id |-> "welcome",
     message |-> Text("[robot] *Ola! Bem-vindo(a) ao Verador Bot!* ... *Como posso ajuda-lo hoje?*"),
     options |-> << [key |-> <<"t","i","c","k","e","t","s">>,
           text |-> <<"[ticket]"," ","G","e","r","e","n","c","i","a","r"," ","T","i","c","k","e","t","s">>,
           nextStep |-> "tickets_menu"],
         [key |-> <<"s","t","a","t","u","s">>,
           text |-> <<"[chart]"," ","S","t","a","t","u","s"," ","d","o"," ","S","i","s","t","e","m","a">>,
           nextStep |-> "system_status"],
         [key |-> <<"h","e","l","p">>,
           text |-> <<"[question]"," ","A","j","u","d","a">>,
           nextStep |-> "help_menu"] >>,
     validation |-> NoRule,
     nextStep |-> [kind |-> "none", target |-> ""],
     action |-> "none",
     allowBack |-> FALSE,
     allowRestart |-> FALSE]

TicketsMenuStep ==
    [id |-> "tickets_menu",
     message |-> Text("[ticket] *Gerenciamento de Tickets* ... Escolha uma das opcoes abaixo:"),
     options |-> << [key |-> <<"c","r","e","a","t","e">>,
           text |-> <<"[plus]"," ","C","r","i","a","r"," ","N","o","v","o"," ","T","i","c","k","e","t">>,
           nextStep |-> "create_ticket"],
         [key |-> <<"l","i","s","t">>,
           text |-> <<"[clipboard]"," ","L","i","s","t","a","r"," ","M","e","u","s"," ","T","i","c","k","e","t","s">>,
           nextStep |-> "list_tickets"],
         [key |-> <<"u","p","d","a","t","e">>,
           text |-> <<"[pencil]"," ","A","t","u","a","l","i","z","a","r"," ","S","t","a","t","u","s">>,
           nextStep |-> "update_ticket"] >>,
     validation |-> NoRule,
     nextStep |-> [kind |-> "none", target |-> ""],
     action |-> "none",
     allowBack |-> TRUE,
     allowRestart |-> TRUE]

SystemStatusStep ==
    [id |-> "system_status",
     message |-> Text("[chart] *Status do Sistema* ... *O sistema esta funcionando normalmente.*"),
     options |-> <<>>,
     validation |-> NoRule,
     nextStep |-> [kind |-> "static", target |-> "welcome"],
     action |-> "none",
     allowBack |-> TRUE,
     allowRestart |-> TRUE]

HelpMenuStep ==
    [id |-> "help_menu",
     message |-> Text("[question] *Central de Ajuda* ... Entre em contato com nosso suporte."),
     options |-> <<>>,
     validation |-> NoRule,
     nextStep |-> [kind |-> "static", target |-> "welcome"],
     action |-> "none",
     allowBack |-> TRUE,
     allowRestart |-> TRUE]

\* The 'create_ticket' step configured to lead to itself.
CreateTicketStepLooping ==
    [id |-> "create_ticket",
     message |-> Text("[plus] *Criar Novo Ticket* ... voce pode usar as outras opcoes do menu principal."),
     options |-> <<>>,
     validation |-> NoRule,
     nextStep |-> [kind |-> "static", target |-> "create_ticket"],
     action |-> "none",
     allowBack |-> TRUE,
     allowRestart |-> TRUE]

CreateTicketStep ==
    [id |-> "create_ticket",
     message |-> Text("[plus] *Criar Novo Ticket* ... voce pode usar as outras opcoes do menu principal."),
     options |-> <<>>,
     validation |-> NoRule,
     nextStep |-> [kind |-> "static", target |-> "tickets_menu"],
     action |-> "none",
     allowBack |-> TRUE,
     allowRestart |-> TRUE]

ListTicketsStep ==
    [id |-> "list_tickets",
     message |-> Text("[clipboard] *Seus Tickets* ... seus tickets ativos e historico."),
     options |-> <<>>,
     validation |-> NoRule,
     nextStep |-> [kind |-> "static", target |-> "tickets_menu"],
     action |-> "none",
     allowBack |-> TRUE,
     allowRestart |-> TRUE]

UpdateTicketStep ==
    [id |-> "update_ticket",
     message |-> Text("[pencil] *Atualizar Status do Ticket* ... alterar o status dos seus tickets."),
     options |-> <<>>,
     validation |-> NoRule,
     nextStep |-> [kind |-> "static", target |-> "tickets_menu"],
     action |-> "none",
     allowBack |-> TRUE,
     allowRestart |-> TRUE]

ValidationErrorStep ==
    [id |-> "validation_error",
     message |-> Text("[cross] *Opcao invalida* ... Ou use: *0* para voltar, *#* para recomecar"),
     options |-> <<>>,
     validation |-> NoRule,
     nextStep |-> [kind |-> "function", target |-> "previousOrWelcome"],
     action |-> "none",
     allowBack |-> TRUE,
     allowRestart |-> TRUE]

ErrorStep ==
    [id |-> "error",
     message |-> Text("[no-entry] *Ops! Algo deu errado* ... Nao se preocupe, seus dados estao seguros!"),
     options |-> <<>>,
     validation |-> NoRule,
     nextStep |-> [kind |-> "static", target |-> "welcome"],
     action |-> "none",
     allowBack |-> FALSE,
     allowRestart |-> TRUE]

\* initializeFlows forgetting to register 'list_tickets'.
initializeFlowsWithoutListTickets ==
    LET steps == {WelcomeStep, TicketsMenuStep, SystemStatusStep, HelpMenuStep,
                  CreateTicketStep, UpdateTicketStep, ValidationErrorStep, ErrorStep}
    IN [id \in {s.id : s \in steps} |-> CHOOSE s \in steps : s.id = id]

\* The registry initializeFlows builds: a Map from step id to FlowStep.
initializeFlows ==
    LET steps == {WelcomeStep, TicketsMenuStep, SystemStatusStep, HelpMenuStep,
                  CreateTicketStep, ListTicketsStep, UpdateTicketStep,
                  ValidationErrorStep, ErrorStep}
    IN [id \in {s.id : s \in steps} |-> CHOOSE s \in steps : s.id = id]

\* Map.has / Map.get of the registry fl
hasStep(fl, stepId) == stepId \in DOMAIN fl

\* Map.set(step.id, step)
addStep(fl, step) == [id \in DOMAIN fl \cup {step.id} |-> IF id = step.id THEN step ELSE fl[id]]

\* `${index + 1}` for the option indexes of the model
numberText(n) == IF n < 10 THEN <<Digits[n + 1]>> ELSE <<Digits[(n \div 10) + 1], Digits[(n % 10) + 1]>>

BackHint == <<"0", ".", " ", "[left] Voltar">>

RestartHint == <<"#", ".", " ", "[cycle] Recomecar">>

\* buildStepResponse listing both control hints whatever the step allows.
buildStepResponseWithHints(step) ==
    LET numbered == [i \in DOMAIN step.options |->
                        numberText(i) \o <<".", " ">> \o step.options[i].text]
    IN [message |-> step.message, options |-> numbered \o <<BackHint, RestartHint>>]

\* A ChatbotResponse: message and the rendered options (<<>> when the code
\* leaves options undefined).
buildStepResponse(step) ==
    LET numbered == [i \in DOMAIN step.options |->
                        numberText(i) \o <<".", " ">> \o step.options[i].text]
        controlOptions ==
            (IF step.allowBack # FALSE THEN <<BackHint>> ELSE <<>>)
            \o (IF step.allowRestart # FALSE THEN <<RestartHint>> ELSE <<>>)
    IN [message |-> step.message, options |-> numbered \o controlOptions]

processStepOptions(userInput, step) ==
    IF step.options = <<>> THEN "error"
    ELSE LET input == trim(userInput)
             inputNumber == parseInt(input)
             normalizedInput == toLowerCase(input)
             matches == {i \in DOMAIN step.options :
                            \/ includes(toLowerCase(step.options[i].text), normalizedInput)
                            \/ toLowerCase(step.options[i].key) = normalizedInput}
         IN IF ~inputNumber.nan /\ inputNumber.value >= 1 /\ inputNumber.value <= Len(step.options)
            THEN step.options[inputNumber.value].nextStep
            ELSE IF matches # {} THEN step.options[Min(matches)].nextStep
            ELSE "validation_error"

\* currentStep.nextStep(userInput, state) for the functions of the registry
callNextStep(name, userInput, state) ==
    CASE name = "previousOrWelcome" ->
            IF Len(state.stepHistory) > 0 THEN state.stepHistory[Len(state.stepHistory)]
            ELSE "welcome"
      [] OTHER -> "welcome"

\* processUserInput handing on the resolved id without looking it up.
processUserInputUnchecked(fl, userInput, currentStepId, state) ==
    IF ~hasStep(fl, currentStepId)
    THEN [nextStepId |-> "welcome",
          response |-> [message |-> Text("Ops! Algo deu errado. Vamos recomecar do inicio."),
                        options |-> <<>>]]
    ELSE LET currentStep == fl[currentStepId]
             resolved ==
                 IF currentStep.nextStep.kind = "function"
                 THEN IF currentStep.nextStep.target = "previousOrWelcome"
                         /\ Len(state.stepHistory) > 0
                      THEN state.stepHistory[Len(state.stepHistory)]
                      ELSE "welcome"
                 ELSE IF currentStep.nextStep.kind = "static"
                 THEN currentStep.nextStep.target
                 ELSE processStepOptions(userInput, currentStep)
         IN [nextStepId |-> resolved,
             response |-> buildStepResponse(IF hasStep(fl, resolved) THEN fl[resolved]
                                            ELSE fl["welcome"])]

\* Whether currentStep.nextStep(userInput, state) raises.
callNextStepThrows(name, userInput, state) == name = "throws"

processUserInput(fl, userInput, currentStepId, state) ==
    IF ~hasStep(fl, currentStepId)
    THEN [nextStepId |-> "welcome",
          response |-> [message |-> Text("Ops! Algo deu errado. Vamos recomecar do inicio."),
                        options |-> <<>>]]
    ELSE IF /\ fl[currentStepId].nextStep.kind = "function"
            /\ callNextStepThrows(fl[currentStepId].nextStep.target, userInput, state)
    THEN Fault
    ELSE LET currentStep == fl[currentStepId]
             resolved ==
                 IF currentStep.nextStep.kind = "function"
                 THEN callNextStep(currentStep.nextStep.target, userInput, state)
                 ELSE IF currentStep.nextStep.kind = "static"
                 THEN currentStep.nextStep.target
                 ELSE processStepOptions(userInput, currentStep)
             nextStepId == IF hasStep(fl, resolved) THEN resolved ELSE "welcome"
         IN [nextStepId |-> nextStepId, response |-> buildStepResponse(fl[nextStepId])]

\* ------------------------------------------------ ConversationStateService

\* The two Maps of the service, as one value st = [conversations,
\* messageHistory]; a Map is a function whose domain is its key set.
mapSet(m, k, v) == [x \in DOMAIN m \cup {k} |-> IF x = k THEN v ELSE m[x]]

mapDelete(m, k) == [x \in DOMAIN m \ {k} |-> m[x]]

\* A ConversationState (userId is the key; isActive and waitingFor are never
\* read by the program).
initialState(t) ==
    [currentStep |-> "welcome", stepHistory |-> <<>>, lastMessageTime |-> t,
     data |-> <<>>, attempts |-> 0]

\* initializeConversation emptying every user's log.
initializeConversationForAll(st, userId, t) ==
    [conversations |-> mapSet(st.conversations, userId, initialState(t)),
     messageHistory |-> [u \in DOMAIN st.messageHistory \cup {userId} |-> <<>>]]

\* initializeConversation leaving the user's message log as it is.
initializeConversationKeepingLog(st, userId, t) ==
    [conversations |-> mapSet(st.conversations, userId, initialState(t)),
     messageHistory |-> IF userId \in DOMAIN st.messageHistory THEN st.messageHistory
                        ELSE mapSet(st.messageHistory, userId, <<>>)]

initializeConversation(st, userId, t) ==
    [conversations |-> mapSet(st.conversations, userId, initialState(t)),
     messageHistory |-> mapSet(st.messageHistory, userId, <<>>)]

\* Returns the store after the call; the state returned to the caller is
\* conversations[userId] of it.
getConversationState(st, userId, t) ==
    LET st1 == IF userId \in DOMAIN st.conversations THEN st
               ELSE initializeConversation(st, userId, t)
    IN [st1 EXCEPT !.conversations[userId].lastMessageTime = t]

\* Every caller passes the state object itself as the updates, so
\* Object.assign changes nothing and the call only refreshes lastMessageTime.
updateConversationState(st, userId, t) ==
    LET st1 == getConversationState(st, userId, t)
    IN [st1 EXCEPT !.conversations[userId].lastMessageTime = t]

\* moveToStep recording the current step also when it is the target.
moveToStepAlwaysPushing(st, userId, stepId, t) ==
    LET st1 == getConversationState(st, userId, t)
        state == st1.conversations[userId]
        moved == [state EXCEPT !.stepHistory = Append(@, state.currentStep),
                               !.currentStep = stepId,
                               !.attempts = 0]
    IN updateConversationState([st1 EXCEPT !.conversations[userId] = moved], userId, t)

\* moveToStep that does not record the step it leaves.
moveToStepForgetting(st, userId, stepId, t) ==
    LET st1 == getConversationState(st, userId, t)
        state == st1.conversations[userId]
        moved == IF state.currentStep # stepId
                 THEN [state EXCEPT !.currentStep = stepId,
                                    !.attempts = 0]
                 ELSE state
    IN updateConversationState([st1 EXCEPT !.conversations[userId] = moved], userId, t)

moveToStep(st, userId, stepId, t) ==
    LET st1 == getConversationState(st, userId, t)
        state == st1.conversations[userId]
        moved == IF state.currentStep # stepId
                 THEN [state EXCEPT !.stepHistory = Append(@, state.currentStep),
                                    !.currentStep = stepId,
                                    !.attempts = 0]
                 ELSE state
    IN updateConversationState([st1 EXCEPT !.conversations[userId] = moved], userId, t)

\* goBackToPreviousStep leaving the attempts as they are.
goBackKeepingAttempts(st, userId, t) ==
    LET st1 == getConversationState(st, userId, t)
        state == st1.conversations[userId]
    IN IF Len(state.stepHistory) > 0
       THEN [st |-> updateConversationState(
                        [st1 EXCEPT !.conversations[userId] =
                            [state EXCEPT !.stepHistory = SubSeq(@, 1, Len(@) - 1),
                                          !.currentStep = state.stepHistory[Len(state.stepHistory)]]],
                        userId, t),
             result |-> TRUE]
       ELSE [st |-> st1, result |-> FALSE]

\* goBackToPreviousStep returning to the oldest step of the history.
goBackToOldestStep(st, userId, t) ==
    LET st1 == getConversationState(st, userId, t)
        state == st1.conversations[userId]
    IN IF Len(state.stepHistory) > 0
       THEN [st |-> updateConversationState(
                        [st1 EXCEPT !.conversations[userId] =
                            [state EXCEPT !.stepHistory = SubSeq(@, 1, Len(@) - 1),
                                          !.currentStep = state.stepHistory[1],
                                          !.attempts = 0]],
                        userId, t),
             result |-> TRUE]
       ELSE [st |-> st1, result |-> FALSE]

\* [st, result]: the store after the call and the boolean it returns.
goBackToPreviousStep(st, userId, t) ==
    LET st1 == getConversationState(st, userId, t)
        state == st1.conversations[userId]
    IN IF Len(state.stepHistory) > 0
       THEN LET previousStep == state.stepHistory[Len(state.stepHistory)]
                popped == [state EXCEPT
                              !.stepHistory = SubSeq(@, 1, Len(@) - 1),
                              !.currentStep = previousStep,
                              !.attempts = 0]
            IN [st |-> updateConversationState(
                           [st1 EXCEPT !.conversations[userId] = popped], userId, t),
                result |-> TRUE]
       ELSE [st |-> st1, result |-> FALSE]

\* restartConversation that keeps a session that exists.
restartConversationLazy(st, userId, t) == getConversationState(st, userId, t)

restartConversation(st, userId, t) == initializeConversation(st, userId, t)

\* incrementAttempts counting a failure twice.
incrementAttemptsTwice(st, userId, t) ==
    LET st1 == getConversationState(st, userId, t)
        st2 == [st1 EXCEPT !.conversations[userId].attempts = @ + 2]
        st3 == updateConversationState(st2, userId, t)
    IN [st |-> st3, result |-> st3.conversations[userId].attempts]

\* incrementAttempts returning the count it found, not the one it stored.
incrementAttemptsReportingOld(st, userId, t) ==
    LET st1 == getConversationState(st, userId, t)
        st2 == [st1 EXCEPT !.conversations[userId].attempts = @ + 1]
        st3 == updateConversationState(st2, userId, t)
    IN [st |-> st3, result |-> st1.conversations[userId].attempts]

\* [st, result]: the store after the call and the count it returns.
incrementAttempts(st, userId, t) ==
    LET st1 == getConversationState(st, userId, t)
        st2 == [st1 EXCEPT !.conversations[userId].attempts = @ + 1]
        st3 == updateConversationState(st2, userId, t)
    IN [st |-> st3, result |-> st3.conversations[userId].attempts]

\* A ChatMessage (userId is the key).
ChatMessage(message, t, messageType) ==
    [message |-> message, timestamp |-> t, messageType |-> messageType]

\* addMessage cutting a full log at its end instead of its start.
addMessageKeepingOldest(st, userId, message) ==
    LET history == (IF userId \in DOMAIN st.messageHistory
                    THEN st.messageHistory[userId] ELSE <<>>) \o <<message>>
        kept == IF Len(history) > MESSAGE_LOG_CAP
                THEN SubSeq(history, 1, MESSAGE_LOG_CAP)
                ELSE history
    IN [st EXCEPT !.messageHistory = mapSet(@, userId, kept)]

addMessage(st, userId, message) ==
    LET history == (IF userId \in DOMAIN st.messageHistory
                    THEN st.messageHistory[userId] ELSE <<>>) \o <<message>>
        kept == IF Len(history) > MESSAGE_LOG_CAP
                THEN SubSeq(history, Len(history) - MESSAGE_LOG_CAP + 1, Len(history))
                ELSE history
    IN [st EXCEPT !.messageHistory = mapSet(@, userId, kept)]

getMessageHistory(st, userId) ==
    IF userId \in DOMAIN st.messageHistory THEN st.messageHistory[userId] ELSE <<>>

\* shouldDebounce measuring a lone incoming entry against the start of the
\* clock.
shouldDebounceFromFirst(st, userId, debounceMs) ==
    LET incomingMessages ==
            SelectSeq(getMessageHistory(st, userId), LAMBDA msg : msg.messageType = "incoming")
        n == Len(incomingMessages)
    IN IF n = 0 THEN FALSE
       ELSE IF n = 1 THEN incomingMessages[n].timestamp < debounceMs
       ELSE incomingMessages[n].timestamp - incomingMessages[n - 1].timestamp < debounceMs

shouldDebounce(st, userId, debounceMs) ==
    LET incomingMessages ==
            SelectSeq(getMessageHistory(st, userId), LAMBDA msg : msg.messageType = "incoming")
        n == Len(incomingMessages)
    IN IF n <= 1 THEN FALSE
       ELSE incomingMessages[n].timestamp - incomingMessages[n - 1].timestamp < debounceMs

isRepeatedMessage(st, userId, message) ==
    LET outgoing ==
            SelectSeq(getMessageHistory(st, userId), LAMBDA msg : msg.messageType = "outgoing")
        outgoingMessages == SubSeq(outgoing, IF Len(outgoing) > 2 THEN Len(outgoing) - 1 ELSE 1,
                                   Len(outgoing))
    IN \E i \in DOMAIN outgoingMessages :
          trim(toLowerCase(outgoingMessages[i].message)) = trim(toLowerCase(message))

\* The users whose session the reaper evicts at time t.
\* The expiry test with the timeout itself counted as expired.
expiredAtTimeout(st, t) ==
    {userId \in DOMAIN st.conversations :
        t - st.conversations[userId].lastMessageTime >= CONVERSATION_TIMEOUT}

expired(st, t) ==
    {userId \in DOMAIN st.conversations :
        t - st.conversations[userId].lastMessageTime > CONVERSATION_TIMEOUT}

\* cleanupExpiredConversations evicting the sessions and keeping their logs.
cleanupExpiredConversationsKeepingLogs(st, t) ==
    [conversations |-> [userId \in DOMAIN st.conversations \ expired(st, t) |->
                           st.conversations[userId]],
     messageHistory |-> st.messageHistory]

cleanupExpiredConversations(st, t) ==
    [conversations |-> [userId \in DOMAIN st.conversations \ expired(st, t) |->
                           st.conversations[userId]],
     messageHistory |-> [userId \in DOMAIN st.messageHistory \ expired(st, t) |->
                            st.messageHistory[userId]]]

getStats(st) ==
    [activeConversations |-> Cardinality(DOMAIN st.conversations),
     totalUsers |-> Cardinality(DOMAIN st.messageHistory)]

\* ---------------------------------------------------------- ChatbotService

DebounceMessage ==
    Text("[timer] Por favor, aguarde um momento antes de enviar outra mensagem.")

CannotGoBackMessage ==
    <<"[warning] Nao e possivel voltar mais. Voce ja esta no inicio.", "\n", "\n",
      "Vamos continuar daqui:">>

BackBanner == <<"[left] *Voltando...*", "\n", "\n">>

RestartBanner == <<"[cycle] *Reiniciando conversa...*", "\n", "\n">>

getWelcomeMessage ==
    <<"[robot] *Ola! Bem-vindo(a) ao Verador Bot!* ... *Como posso ajuda-lo hoje?*",
      "\n", "\n", "1. [ticket] Gerenciar Tickets", "\n", "2. [chart] Status do Sistema  ",
      "\n", "3. [question] Ajuda">>

TooManyAttemptsMessage ==
    <<"[no-entry] Muitas tentativas invalidas. Vamos recomecar do inicio.", "\n", "\n">>
    \o getWelcomeMessage

HintSuffix == <<"\n", "\n", "Por favor, digite uma das opcoes listadas.">>

NumericOnlySuffix ==
    <<"\n", "\n", "[warning] Atencao: Digite apenas o *numero* da opcao desejada.">>

LastAttemptSuffix ==
    <<"\n", "\n", "[siren] Ultima tentativa! Use apenas os numeros das opcoes.">>

InvalidOptionMessage == Text("[cross] Opcao invalida.")

createSimpleResponse(message) == [message |-> message, options |-> <<>>]

\* buildValidationErrorMessage with the first two tiers exchanged.
buildValidationErrorMessageSwapped(attempts, customError) ==
    (IF customError # <<>> THEN customError ELSE InvalidOptionMessage)
    \o (IF attempts = 1 THEN NumericOnlySuffix
        ELSE IF attempts = 2 THEN HintSuffix
        ELSE LastAttemptSuffix)

\* customError <<>> is the absent (or empty) argument.
buildValidationErrorMessage(attempts, customError) ==
    (IF customError # <<>> THEN customError ELSE InvalidOptionMessage)
    \o (IF attempts = 1 THEN HintSuffix
        ELSE IF attempts = 2 THEN NumericOnlySuffix
        ELSE LastAttemptSuffix)

addIncomingMessage(st, userId, message, t) ==
    addMessage(st, userId, ChatMessage(message, t, "incoming"))

\* addOutgoingMessage logging a reply whether or not it repeats.
addOutgoingMessageAlways(st, userId, message, t) ==
    addMessage(st, userId, ChatMessage(message, t, "outgoing"))

addOutgoingMessage(st, userId, message, t) ==
    IF isRepeatedMessage(st, userId, message) THEN st
    ELSE addMessage(st, userId, ChatMessage(message, t, "outgoing"))

\* The results of the handlers below are [st, response, outcome]: the store
\* after the call, the ChatbotResponse returned, and the branch that
\* produced it.
Result(st, response, outcome) == [st |-> st, response |-> response, outcome |-> outcome]

\* A call whose promise is rejected: the caller gets the fault, no response.
\* processMessage returns the promise of processNormalMessage without
\* awaiting it, so its own catch never sees a fault raised in there.
Rejected(st) == Result(st, createSimpleResponse(<<>>), "fault")

getWelcomeResponse(st, fl, userId, t, outcome) ==
    IF hasStep(fl, "welcome")
    THEN LET response == buildStepResponse(fl["welcome"])
         IN Result(addOutgoingMessage(st, userId, response.message, t), response, outcome)
    ELSE Result(st, createSimpleResponse(getWelcomeMessage), outcome)

\* handleError answering without restarting the conversation.
handleErrorKeepingSession(st, fl, userId, t) ==
    IF hasStep(fl, "error")
    THEN LET response == buildStepResponse(fl["error"])
         IN Result(addOutgoingMessage(st, userId, response.message, t), response, "error")
    ELSE getWelcomeResponse(st, fl, userId, t, "error")

handleError(st, fl, userId, t) ==
    LET st1 == restartConversation(st, userId, t)
    IN IF hasStep(fl, "error")
       THEN LET response == buildStepResponse(fl["error"])
            IN Result(addOutgoingMessage(st1, userId, response.message, t), response, "error")
       ELSE getWelcomeResponse(st1, fl, userId, t, "error")

\* handleValidationError resetting only above the ceiling.
handleValidationErrorStrict(st, userId, errorMessage, t) ==
    LET inc == incrementAttempts(st, userId, t)
    IN IF inc.result > MAX_ATTEMPTS
       THEN Result(restartConversation(inc.st, userId, t),
                   createSimpleResponse(TooManyAttemptsMessage), "reset")
       ELSE LET fullMessage == buildValidationErrorMessage(inc.result, errorMessage)
            IN Result(addOutgoingMessage(inc.st, userId, fullMessage, t),
                      createSimpleResponse(fullMessage), "retry")

handleValidationError(st, userId, errorMessage, t) ==
    LET inc == incrementAttempts(st, userId, t)
    IN IF inc.result >= MAX_ATTEMPTS
       THEN Result(restartConversation(inc.st, userId, t),
                   createSimpleResponse(TooManyAttemptsMessage), "reset")
       ELSE LET fullMessage == buildValidationErrorMessage(inc.result, errorMessage)
            IN Result(addOutgoingMessage(inc.st, userId, fullMessage, t),
                      createSimpleResponse(fullMessage), "retry")

\* handleRestartCommand refusing the keyword at a step whose allowRestart is
\* false.
handleRestartCommandGuarded(st, fl, userId, t) ==
    IF /\ hasStep(fl, st.conversations[userId].currentStep)
       /\ fl[st.conversations[userId].currentStep].allowRestart = FALSE
    THEN Result(st, createSimpleResponse(CannotGoBackMessage), "restart_refused")
    ELSE LET welcome == getWelcomeResponse(restartConversation(st, userId, t), fl, userId, t,
                                           "restart")
             response == [welcome.response EXCEPT !.message = RestartBanner \o @]
         IN Result(addOutgoingMessage(welcome.st, userId, response.message, t), response,
                   "restart")

handleRestartCommand(st, fl, userId, t) ==
    LET welcome == getWelcomeResponse(restartConversation(st, userId, t), fl, userId, t, "restart")
        response == [welcome.response EXCEPT !.message = RestartBanner \o @]
    IN Result(addOutgoingMessage(welcome.st, userId, response.message, t), response, "restart")

handleBackCommand(st, fl, userId, t) ==
    LET back == goBackToPreviousStep(st, userId, t)
    IN IF ~back.result
       THEN Result(back.st, createSimpleResponse(CannotGoBackMessage), "back_refused")
       ELSE LET st1 == getConversationState(back.st, userId, t)
                newState == st1.conversations[userId]
            IN IF ~hasStep(fl, newState.currentStep)
               THEN getWelcomeResponse(restartConversation(st1, userId, t), fl, userId, t,
                                       "unknown_step")
               ELSE LET built == buildStepResponse(fl[newState.currentStep])
                        response == [built EXCEPT !.message = BackBanner \o @]
                    IN Result(addOutgoingMessage(st1, userId, response.message, t),
                              response, "back")

\* currentStep.action(userInput, state) for the actions of the registry:
\* [ok, data], whether it returned and the data it leaves in the state.
callAction(name, userInput, state) ==
    CASE name = "storeInput" -> [ok |-> TRUE, data |-> mapSet(state.data, "input", userInput)]
      [] name = "recordCall" ->
            [ok |-> TRUE,
             data |-> mapSet(state.data, "calls",
                             Append(IF "calls" \in DOMAIN state.data THEN state.data["calls"]
                                    ELSE <<>>, userInput))]
      [] name = "fail" -> [ok |-> FALSE, data |-> state.data]
      [] OTHER -> [ok |-> TRUE, data |-> state.data]

\* processTransition moving to whatever step the input resolved to, the
\* 'validation_error' step included.
processTransitionAlwaysMoving(st, fl, userId, message, t) ==
    LET state == st.conversations[userId]
        currentStep == fl[state.currentStep]
        acted == callAction(currentStep.action, message, state)
        st1 == [st EXCEPT !.conversations[userId].data = acted.data]
        next == processUserInput(fl, message, state.currentStep, st1.conversations[userId])
    IN IF currentStep.action # "none" /\ ~acted.ok THEN handleError(st1, fl, userId, t)
       ELSE IF isFault(next) THEN Rejected(st1)
       ELSE LET st2 == moveToStep(st1, userId, next.nextStepId, t)
            IN Result(addOutgoingMessage(st2, userId, next.response.message, t),
                      next.response, "moved")

\* The part of processNormalMessage after validation: the action, the
\* transition, the attempt count and the reply.
processTransition(st, fl, userId, message, t) ==
    LET state == st.conversations[userId]
        currentStep == fl[state.currentStep]
        acted == callAction(currentStep.action, message, state)
        st1 == [st EXCEPT !.conversations[userId].data = acted.data]
        next == processUserInput(fl, message, state.currentStep, st1.conversations[userId])
    IN IF currentStep.action # "none" /\ ~acted.ok THEN handleError(st1, fl, userId, t)
       ELSE IF isFault(next) THEN Rejected(st1)
       ELSE IF next.nextStepId = "validation_error"
       THEN LET inc == incrementAttempts(st1, userId, t)
            IN IF inc.result >= MAX_ATTEMPTS
               THEN Result(restartConversation(inc.st, userId, t),
                           createSimpleResponse(TooManyAttemptsMessage), "reset")
               ELSE LET response == [next.response EXCEPT
                                        !.message = buildValidationErrorMessage(inc.result, <<>>)]
                    IN Result(addOutgoingMessage(inc.st, userId, response.message, t),
                              response, "retry")
       ELSE LET st2 == moveToStep(st1, userId, next.nextStepId, t)
            IN Result(addOutgoingMessage(st2, userId, next.response.message, t),
                      next.response, "moved")

\* processNormalMessage without the re-rendering of the first menu.
processNormalMessageAlwaysResolving(st, fl, userId, message, t) ==
    LET state == st.conversations[userId]
    IN IF ~hasStep(fl, state.currentStep)
       THEN getWelcomeResponse(restartConversation(st, userId, t), fl, userId, t, "unknown_step")
       ELSE LET currentStep == fl[state.currentStep]
                validation == validateInput(message, currentStep.validation)
            IN IF currentStep.validation.present /\ isFault(validation)
               THEN Rejected(st)
               ELSE IF currentStep.validation.present /\ ~validation.isValid
               THEN handleValidationError(st, userId, validation.errorMessage, t)
               ELSE processTransition(st, fl, userId, message, t)

processNormalMessage(st, fl, userId, message, t) ==
    LET state == st.conversations[userId]
    IN IF ~hasStep(fl, state.currentStep)
       THEN getWelcomeResponse(restartConversation(st, userId, t), fl, userId, t, "unknown_step")
       ELSE LET currentStep == fl[state.currentStep]
                validation == validateInput(message, currentStep.validation)
            IN IF /\ state.currentStep = "welcome"
                  /\ Len(state.stepHistory) = 0
                  /\ ~isPositiveIntegerString(trim(message))
               THEN LET response == buildStepResponse(currentStep)
                    IN Result(addOutgoingMessage(st, userId, response.message, t),
                              response, "rerender")
               ELSE IF currentStep.validation.present /\ isFault(validation)
               THEN Rejected(st)
               ELSE IF currentStep.validation.present /\ ~validation.isValid
               THEN handleValidationError(st, userId, validation.errorMessage, t)
               ELSE processTransition(st, fl, userId, message, t)

\* processMessage fetching the session before the debounce check.
processMessageFetchFirst(st, fl, userId, message, t) ==
    LET sanitizedMessage == sanitizeInput(message)
        st1 == getConversationState(addIncomingMessage(st, userId, sanitizedMessage, t), userId, t)
        controlCheck == isControlKeyword(sanitizedMessage)
    IN IF shouldDebounce(st1, userId, DEBOUNCE_TIME)
       THEN Result(st1, createSimpleResponse(DebounceMessage), "debounced")
       ELSE IF controlCheck.type = "back" THEN handleBackCommand(st1, fl, userId, t)
       ELSE IF controlCheck.type = "restart" THEN handleRestartCommand(st1, fl, userId, t)
       ELSE processNormalMessage(st1, fl, userId, sanitizedMessage, t)

processMessage(st, fl, userId, message, t) ==
    LET sanitizedMessage == sanitizeInput(message)
        st1 == addIncomingMessage(st, userId, sanitizedMessage, t)
    IN IF shouldDebounce(st1, userId, DEBOUNCE_TIME)
       THEN Result(st1, createSimpleResponse(DebounceMessage), "debounced")
       ELSE LET st2 == getConversationState(st1, userId, t)
                controlCheck == isControlKeyword(sanitizedMessage)
            IN IF controlCheck.type = "back" THEN handleBackCommand(st2, fl, userId, t)
               ELSE IF controlCheck.type = "restart" THEN handleRestartCommand(st2, fl, userId, t)
               ELSE processNormalMessage(st2, fl, userId, sanitizedMessage, t)

\* ------------------------------------------------------------ the machine

\* A step an administrator registers over the built-in 'system_status': it
\* asks for a number, stores it and returns to the menu.
AskNumberStep ==
    [id |-> "system_status",
     message |-> Text("[chart] Informe o numero do ticket:"),
     options |-> <<>>,
     validation |-> [NoRule EXCEPT !.present = TRUE, !.type = "number"],
     nextStep |-> [kind |-> "static", target |-> "welcome"],
     action |-> "storeInput",
     allowBack |-> TRUE,
     allowRestart |-> TRUE]

\* The messages users send: free text, menu numbers in and out of range, the
\* back and the restart keyword.
Messages == { <<"O","i">>, <<"1">>, <<"2">>, <<"9">>, <<"0">>, <<"#">> }

\* Milliseconds between two turns, and between a turn and a reaper run.
TurnGaps == {DEBOUNCE_TIME - 1, DEBOUNCE_TIME}

ReaperGaps == {CONVERSATION_TIMEOUT + 1}

\* The step ids the store's operations are called with directly.
StoreSteps == {"welcome", "tickets_menu", "create_ticket"}

store == [conversations |-> conversations, messageHistory |-> messageHistory]

hasSession(st, userId) == userId \in DOMAIN st.conversations

\* The record of one call: what was called, with what, what it returned
\* (response and outcome of a turn, result of a store operation) and the
\* store it was called on.
Call(op, userId, message, response, outcome, result, before) ==
    [op |-> op, userId |-> userId, message |-> message, response |-> response,
     outcome |-> outcome, result |-> result, before |-> before]

NoCall ==
    Call("none", "", <<>>, createSimpleResponse(<<>>), "none", FALSE,
         [conversations |-> <<>>, messageHistory |-> <<>>])

\* The session a call for userId at time t works on: the stored one, or the
\* one created for a user that has none.
fetched(st, userId, t) == getConversationState(st, userId, t).conversations[userId]

\* Whether a message is an invalid input for the session it meets: no control
\* keyword, not the first-turn re-rendering, and rejected by the step's
\* validation rule or resolved to 'validation_error'.
inputInvalid(st, fl, userId, rawMessage, t) ==
    LET message == sanitizeInput(rawMessage)
        state == fetched(st, userId, t)
    IN /\ isControlKeyword(message).type = "null"
       /\ hasStep(fl, state.currentStep)
       /\ ~(/\ state.currentStep = "welcome"
            /\ Len(state.stepHistory) = 0
            /\ ~isPositiveIntegerString(trim(message)))
       /\ LET currentStep == fl[state.currentStep]
          IN \/ /\ currentStep.validation.present
                /\ ~isFault(validateInput(message, currentStep.validation))
                /\ ~validateInput(message, currentStep.validation).isValid
             \/ /\ ~(/\ currentStep.validation.present
                      /\ isFault(validateInput(message, currentStep.validation)))
                /\ callAction(currentStep.action, message, state).ok
                /\ ~isFault(processUserInput(fl, message, state.currentStep, state))
                /\ processUserInput(fl, message, state.currentStep, state).nextStepId
                       = "validation_error"

\* One entry of a user's trail: the kind of event (the outcome of a turn that
\* was not debounced, a store operation, an eviction), its boolean result,
\* whether its input was invalid, and the session it met: the current step
\* before (from) and after (to, "" once evicted), the attempts and the
\* length of the history before.
Event(kind, result, invalid, userId, st, after, t) ==
    [kind |-> kind, result |-> result, invalid |-> invalid,
     from |-> fetched(st, userId, t).currentStep,
     to |-> IF hasSession(after, userId) THEN after.conversations[userId].currentStep ELSE "",
     attempts |-> fetched(st, userId, t).attempts,
     depth |-> Len(fetched(st, userId, t).stepHistory)]

Init ==
    /\ conversations = <<>>
    /\ messageHistory = <<>>
    /\ flows = initializeFlows
    /\ now = 0
    /\ turns = 0
    /\ last = NoCall
    /\ trail = [userId \in Users |-> <<>>]
    /\ inflight = <<>>

\* One call of ChatbotService.processMessage, gap milliseconds after the
\* previous event, run to its end: what it does to the store and what it
\* leaves in the record of calls.
Turn(userId, message, gap) ==
    /\ turns < MaxTurns
    /\ \E t \in {now + gap} : \E r \in {processMessage(store, flows, userId, message, t)} :
          /\ now' = t
          /\ conversations' = r.st.conversations
          /\ messageHistory' = r.st.messageHistory
          /\ last' = Call("processMessage", userId, message, r.response, r.outcome, FALSE, store)
          /\ trail' = IF r.outcome = "debounced" THEN trail
                      ELSE [trail EXCEPT ![userId] =
                               Append(@, Event(r.outcome, FALSE,
                                               inputInvalid(store, flows, userId, message, t),
                                               userId, store, r.st, t))]
    /\ turns' = turns + 1
    /\ UNCHANGED flows

\* A call of processMessage while no other call is waiting for an action.
ProcessMessage(userId, message, gap) ==
    /\ \A i \in DOMAIN inflight : inflight[i].phase = "done"
    /\ Turn(userId, message, gap)
    /\ UNCHANGED inflight

\* One firing of the reaper's interval timer, gap milliseconds after the
\* previous event: what it does to the store.
Reap(gap) ==
    /\ now + gap <= MaxTime
    /\ \E t \in {now + gap} : \E st \in {cleanupExpiredConversations(store, t)} :
          /\ now' = t
          /\ conversations' = st.conversations
          /\ messageHistory' = st.messageHistory
          /\ trail' = [userId \in DOMAIN trail |->
                          IF userId \in expired(store, t)
                          THEN Append(trail[userId],
                                      Event("evicted", FALSE, FALSE, userId, store, st, t))
                          ELSE trail[userId]]
          /\ last' = Call("cleanupExpiredConversations", "", <<>>, createSimpleResponse(<<>>),
                          "none", FALSE, store)
    /\ UNCHANGED <<flows, turns>>

\* A firing of the reaper while no call is waiting for an action.
Cleanup(gap) ==
    /\ Reap(gap)
    /\ UNCHANGED inflight

Next ==
    \/ \E userId \in Users, message \in Messages, gap \in TurnGaps :
          ProcessMessage(userId, message, gap)
    \/ \E gap \in ReaperGaps : Cleanup(gap)

\* The engine with the built-in registry.
Spec == Init /\ [][Next]_vars

\* The engine with a validated step registered at bootstrap.
InitSteps ==
    /\ conversations = <<>>
    /\ messageHistory = <<>>
    /\ flows = addStep(initializeFlows, AskNumberStep)
    /\ now = 0
    /\ turns = 0
    /\ last = NoCall
    /\ trail = [userId \in Users |-> <<>>]
    /\ inflight = <<>>

SpecSteps == InitSteps /\ [][Next]_vars

\* A step as an administrator registers it again: under a validation rule
\* and with an action that adds the input it is called with to the calls
\* the session's data keeps.
Recording(step, rule) == [step EXCEPT !.validation = rule, !.action = "recordCall"]

InitEffects ==
    /\ conversations = <<>>
    /\ messageHistory = <<>>
    /\ flows = addStep(addStep(initializeFlows, Recording(WelcomeStep, NoRule)),
                       Recording(TicketsMenuStep,
                                 [NoRule EXCEPT !.present = TRUE, !.type = "number"]))
    /\ now = 0
    /\ turns = 0
    /\ last = NoCall
    /\ trail = [userId \in Users |-> <<>>]
    /\ inflight = <<>>

\* The engine with actions on its first two menus.
SpecEffects == InitEffects /\ [][Next]_vars

\* The operations of ConversationStateService called directly.
StoreCall(op, userId, result, st) ==
    /\ turns < MaxOps
    /\ turns' = turns + 1
    /\ conversations' = st.conversations
    /\ messageHistory' = st.messageHistory
    /\ last' = Call(op, userId, <<>>, createSimpleResponse(<<>>), "none", result, store)
    /\ trail' = [trail EXCEPT ![userId] =
                    Append(@, Event(op, result, FALSE, userId, store, st, now))]
    /\ UNCHANGED <<flows, now, inflight>>

MoveToStep(userId, stepId) ==
    StoreCall("moveToStep", userId, FALSE, moveToStep(store, userId, stepId, now))

GoBackToPreviousStep(userId) ==
    \E r \in {goBackToPreviousStep(store, userId, now)} :
        StoreCall("goBackToPreviousStep", userId, r.result, r.st)

RestartConversation(userId) ==
    StoreCall("restartConversation", userId, FALSE, restartConversation(store, userId, now))

IncrementAttempts(userId) ==
    \E r \in {incrementAttempts(store, userId, now)} :
        StoreCall("incrementAttempts", userId, FALSE, r.st)

NextStore ==
    \/ \E userId \in Users, stepId \in StoreSteps : MoveToStep(userId, stepId)
    \/ \E userId \in Users : GoBackToPreviousStep(userId)
    \/ \E userId \in Users : RestartConversation(userId)
    \/ \E userId \in Users : IncrementAttempts(userId)

SpecStore == Init /\ [][NextStore]_vars

\* The engine with two users and steps that go wrong registered over three
\* built-in menu entries: a step whose action raises, a step whose
\* configured target is not registered, and a step whose validator raises on
\* "9" and whose computed target raises on every other input.
FaultUsers == {"u1", "u2"}

BrokenActionStep ==
    [id |-> "tickets_menu",
     message |-> Text("[ticket] Descreva o problema:"),
     options |-> <<>>,
     validation |-> NoRule,
     nextStep |-> [kind |-> "static", target |-> "list_tickets"],
     action |-> "fail",
     allowBack |-> TRUE,
     allowRestart |-> TRUE]

DanglingStep ==
    [id |-> "system_status",
     message |-> Text("[chart] Consultando o status..."),
     options |-> <<>>,
     validation |-> NoRule,
     nextStep |-> [kind |-> "static", target |-> "missing_step"],
     action |-> "none",
     allowBack |-> TRUE,
     allowRestart |-> TRUE]

ThrowingStep ==
    [id |-> "help_menu",
     message |-> Text("[question] Qual e a sua duvida?"),
     options |-> <<>>,
     validation |-> [NoRule EXCEPT !.present = TRUE, !.type = "custom",
                                   !.customValidator = "throwsOnNine"],
     nextStep |-> [kind |-> "function", target |-> "throws"],
     action |-> "none",
     allowBack |-> TRUE,
     allowRestart |-> TRUE]

FaultFlows == addStep(addStep(addStep(initializeFlows, BrokenActionStep), DanglingStep),
                      ThrowingStep)

FaultMessages == { <<"1">>, <<"2">>, <<"3">>, <<"9">> }

FaultGaps == {DEBOUNCE_TIME}

\* Reaper runs that find the session of the turn before last exactly at the
\* timeout, and one millisecond beyond it.
FaultReaperGaps ==
    {CONVERSATION_TIMEOUT - DEBOUNCE_TIME, CONVERSATION_TIMEOUT - DEBOUNCE_TIME + 1}

InitFaults ==
    /\ conversations = <<>>
    /\ messageHistory = <<>>
    /\ flows = FaultFlows
    /\ now = 0
    /\ turns = 0
    /\ last = NoCall
    /\ trail = [userId \in FaultUsers |-> <<>>]
    /\ inflight = <<>>

NextFaults ==
    \/ \E userId \in FaultUsers, message \in FaultMessages, gap \in FaultGaps :
          ProcessMessage(userId, message, gap)
    \/ \E gap \in FaultReaperGaps : Cleanup(gap)

SpecFaults == InitFaults /\ [][NextFaults]_vars

\* The engine with the built-in registry and a user who works the menus:
\* free text, an option's key, part of an option's label, menu numbers in and
\* out of range, a number followed by other text, and the control keywords,
\* none of them sent inside the debounce window.
MenuMessages ==
    { <<"O","i">>, <<"h","e","l","p">>, <<"S","I","S">>, <<"1">>, <<"9">>, <<"1","x">>,
      <<"0">>, <<"#">> }

MenuGaps == {DEBOUNCE_TIME}

NextMenu ==
    \E userId \in Users, message \in MenuMessages, gap \in MenuGaps :
        ProcessMessage(userId, message, gap)

SpecMenu == Init /\ [][NextMenu]_vars

\* ------------------------------------------- turns that wait for an action

\* processNormalMessage from the line after `await currentStep.action(...)`
\* that returned: state is the session object the turn was handed when it
\* began, while the store's operations look the session up by userId again.
continueAfterAction(st, fl, userId, message, state, t) ==
    LET next == processUserInput(fl, message, state.currentStep, state)
    IN IF isFault(next) THEN Rejected(st)
       ELSE IF next.nextStepId = "validation_error"
       THEN LET inc == incrementAttempts(st, userId, t)
            IN IF inc.result >= MAX_ATTEMPTS
               THEN Result(restartConversation(inc.st, userId, t),
                           createSimpleResponse(TooManyAttemptsMessage), "reset")
               ELSE LET response == [next.response EXCEPT
                                        !.message = buildValidationErrorMessage(inc.result, <<>>)]
                    IN Result(addOutgoingMessage(inc.st, userId, response.message, t),
                              response, "retry")
       ELSE LET st2 == moveToStep(st, userId, next.nextStepId, t)
            IN Result(addOutgoingMessage(st2, userId, next.response.message, t),
                      next.response, "moved")

\* The store when a call of processMessage reaches the await of its step's
\* action: the incoming message is logged, the session is fetched and the
\* action has made its writes to the session object.
storeAtAwait(st, fl, userId, message, t) ==
    LET st2 == getConversationState(addIncomingMessage(st, userId, sanitizeInput(message), t),
                                    userId, t)
        state == st2.conversations[userId]
    IN [st2 EXCEPT !.conversations[userId].data =
           callAction(fl[state.currentStep].action, sanitizeInput(message), state).data]

\* Whether a call of processMessage gets as far as awaiting its step's
\* action: not debounced, no control keyword, a registered step, not the
\* re-rendering of the first menu, an input the step's rule accepts, and a
\* step that has an action which returns.
reachesAction(st, fl, userId, message, t) ==
    LET sanitizedMessage == sanitizeInput(message)
        st1 == addIncomingMessage(st, userId, sanitizedMessage, t)
        state == getConversationState(st1, userId, t).conversations[userId]
    IN /\ ~shouldDebounce(st1, userId, DEBOUNCE_TIME)
       /\ isControlKeyword(sanitizedMessage).type = "null"
       /\ hasStep(fl, state.currentStep)
       /\ ~(/\ state.currentStep = "welcome"
            /\ Len(state.stepHistory) = 0
            /\ ~isPositiveIntegerString(trim(sanitizedMessage)))
       /\ \/ ~fl[state.currentStep].validation.present
          \/ /\ ~isFault(validateInput(sanitizedMessage, fl[state.currentStep].validation))
             /\ validateInput(sanitizedMessage, fl[state.currentStep].validation).isValid
       /\ fl[state.currentStep].action # "none"
       /\ callAction(fl[state.currentStep].action, sanitizedMessage, state).ok

\* The outcomes of a turn that put a new session object in the store
\* (initializeConversation) instead of changing the stored one in place.
ReplacingOutcomes == {"restart", "reset", "unknown_step", "error"}

\* A call of processMessage that is waiting for its step's action: whose it
\* is, its sanitized message, when it began and on what store, whether the
\* session object it holds is still the stored one ("live"), was replaced
\* by a restart or removed by the reaper, that object once it is no longer
\* the stored one, the turns that ran meanwhile and whether the reaper did,
\* and, once it has returned, when and with what store.
InFlight(userId, message, began, before, state) ==
    [userId |-> userId, message |-> message, began |-> began, before |-> before,
     phase |-> "awaiting", object |-> "live", view |-> state, between |-> <<>>,
     reaped |-> FALSE, finished |-> began, after |-> before]

Awaiting == inflight # <<>> /\ inflight[1].phase = "awaiting"

\* The messages of a user who answers the step that stores a number.
AsyncMessages == { <<"2">>, <<"5">>, <<"0">>, <<"#">>, <<"O","i">> }

\* Milliseconds between the events of a waiting turn: the debounce window
\* between turns, none or the window before the action returns.
AsyncGaps == {DEBOUNCE_TIME}

ResumeGaps == {0, DEBOUNCE_TIME}

\* A call of processMessage runs up to the await of its step's action and
\* yields there.
AwaitAction(userId, message, gap) ==
    /\ ~Awaiting
    /\ turns < MaxTurns
    /\ \E t \in {now + gap} :
          /\ reachesAction(store, flows, userId, message, t)
          /\ \E st \in {storeAtAwait(store, flows, userId, message, t)} :
                /\ conversations' = st.conversations
                /\ messageHistory' = st.messageHistory
                /\ inflight' = <<InFlight(userId, sanitizeInput(message), t, store,
                                          st.conversations[userId])>>
          /\ now' = t
    /\ turns' = turns + 1
    /\ UNCHANGED <<flows, last, trail>>

\* Another call of processMessage for the same user arrives while the first
\* one waits, and runs to its end.
TurnDuringAwait(message, gap) ==
    /\ Awaiting
    /\ Turn(inflight[1].userId, message, gap)
    /\ inflight' = <<[inflight[1] EXCEPT
                        !.between = Append(@, [message |-> message, at |-> now']),
                        !.object = IF @ = "live" /\ last'.outcome \in ReplacingOutcomes
                                   THEN "replaced" ELSE @,
                        !.view = IF inflight[1].object = "live"
                                 THEN conversations[inflight[1].userId] ELSE @]>>

\* The reaper's timer fires while a call of processMessage waits.
ReaperDuringAwait(gap) ==
    /\ Awaiting
    /\ Reap(gap)
    /\ inflight' = <<[inflight[1] EXCEPT
                        !.reaped = TRUE,
                        !.object = IF @ = "live" /\ inflight[1].userId \notin DOMAIN conversations'
                                   THEN "evicted" ELSE @,
                        !.view = IF inflight[1].object = "live"
                                 THEN conversations[inflight[1].userId] ELSE @]>>

\* The action returns and the waiting call runs to its end on the session
\* object it holds.
ResumeAction(gap) ==
    /\ Awaiting
    /\ now + gap <= MaxTime
    /\ \E t \in {now + gap}, p \in {inflight[1]} :
       \E r \in {continueAfterAction(store, flows, p.userId, p.message,
                                     IF p.object = "live" THEN conversations[p.userId]
                                     ELSE p.view, t)} :
          /\ now' = t
          /\ conversations' = r.st.conversations
          /\ messageHistory' = r.st.messageHistory
          /\ last' = Call("processMessage", p.userId, p.message, r.response, r.outcome, FALSE,
                          p.before)
          /\ inflight' = <<[p EXCEPT !.phase = "done", !.finished = t, !.after = r.st]>>
    /\ UNCHANGED <<flows, turns, trail>>

NextAsync ==
    \/ \E userId \in Users, message \in AsyncMessages, gap \in AsyncGaps :
          ProcessMessage(userId, message, gap)
    \/ \E userId \in Users, message \in AsyncMessages, gap \in AsyncGaps :
          AwaitAction(userId, message, gap)
    \/ \E message \in AsyncMessages, gap \in AsyncGaps : TurnDuringAwait(message, gap)
    \/ \E gap \in ReaperGaps : ReaperDuringAwait(gap)
    \/ \E gap \in ResumeGaps : ResumeAction(gap)

\* The engine with a step whose action is awaited, and calls that overlap.
SpecAsync == InitSteps /\ [][NextAsync]_vars

\* A step an administrator registers over the built-in 'create_ticket' with
\* neither options nor a configured next step.
DeadEndStep ==
    [id |-> "create_ticket",
     message |-> Text("[plus] Obrigado pelo contato."),
     options |-> <<>>,
     validation |-> NoRule,
     nextStep |-> [kind |-> "none", target |-> ""],
     action |-> "none",
     allowBack |-> TRUE,
     allowRestart |-> TRUE]

InitDeadEnd ==
    /\ conversations = <<>>
    /\ messageHistory = <<>>
    /\ flows = addStep(initializeFlows, DeadEndStep)
    /\ now = 0
    /\ turns = 0
    /\ last = NoCall
    /\ trail = [userId \in Users |-> <<>>]
    /\ inflight = <<>>

\* The engine with a step that leads nowhere, and a user who works the menus.
SpecDeadEnd == InitDeadEnd /\ [][NextMenu]_vars

\* A request of ChatbotController that goes straight to the store, gap
\* milliseconds after the previous event: the store it leaves.
ApiCall(op, userId, gap, st) ==
    /\ turns < MaxTurns
    /\ turns' = turns + 1
    /\ now' = now + gap
    /\ conversations' = st.conversations
    /\ messageHistory' = st.messageHistory
    /\ last' = Call(op, userId, <<>>, createSimpleResponse(<<>>), "none", FALSE, store)
    /\ UNCHANGED <<flows, trail, inflight>>

\* GET conversation/:userId
GetConversationState(userId, gap) ==
    ApiCall("getConversationState", userId, gap, getConversationState(store, userId, now + gap))

\* GET conversation/:userId/history
GetMessageHistory(userId, gap) ==
    ApiCall("getMessageHistory", userId, gap, store)

\* POST conversation/:userId/restart
ForceRestart(userId, gap) ==
    ApiCall("restartConversation", userId, gap, restartConversation(store, userId, now + gap))

\* The messages of a user who is being watched through the controller.
ApiMessages == { <<"O","i">>, <<"1">>, <<"2">>, <<"9">>, <<"#">> }

ApiGaps == {DEBOUNCE_TIME}

NextApi ==
    \/ \E userId \in Users, message \in ApiMessages, gap \in ApiGaps :
          ProcessMessage(userId, message, gap)
    \/ \E userId \in Users, gap \in ApiGaps : GetConversationState(userId, gap)
    \/ \E userId \in Users, gap \in ApiGaps : GetMessageHistory(userId, gap)
    \/ \E userId \in Users, gap \in ApiGaps : ForceRestart(userId, gap)

\* The engine and the controller's requests about a user.
SpecApi == InitSteps /\ [][NextApi]_vars

\* One call of ConversationStateService.addMessage, among the first so many
\* of a run: the message's text is the number of the call, so that a log
\* shows which calls it kept.
AddMessage(userId, messageType, calls) ==
    /\ turns < calls
    /\ turns' = turns + 1
    /\ \E message \in {ChatMessage(numberText(turns + 1), now, messageType)} :
       \E st \in {addMessage(store, userId, message)} :
          /\ conversations' = st.conversations
          /\ messageHistory' = st.messageHistory
          /\ last' = Call("addMessage", userId, message.message, createSimpleResponse(<<>>),
                          "none", FALSE, store)
    /\ UNCHANGED <<flows, now, trail, inflight>>

\* A stream of messages of one user: incoming and outgoing in any order for
\* the first calls, incoming ones after that.
NextLog ==
    \/ \E userId \in Users : AddMessage(userId, "incoming", MaxLog)
    \/ \E userId \in Users : AddMessage(userId, "outgoing", MaxOps)

\* The message log under a stream longer than its cap.
SpecLog == Init /\ [][NextLog]_vars

\* The messages of a user who tries the control keywords: as listed, in
\* capitals and between blanks, between angle brackets, inside a longer
\* text or number, besides a menu number and free text.
KeywordMessages ==
    { <<"2">>, <<"O","i">>, <<"0">>, <<"1","0">>, <<"<","0",">">>,
      <<" ","V","o","l","t","a","r"," ">>, <<"v","o","l","t","a","r"," ","j","a">>,
      <<"i","n","i","c","i","a","r">>, <<"S","T","A","R","T">>, <<"#">> }

NextKeywords ==
    \E userId \in Users, message \in KeywordMessages, gap \in MenuGaps :
        ProcessMessage(userId, message, gap)

\* The engine with a validated step and a user who tries the keywords.
SpecKeywords == InitSteps /\ [][NextKeywords]_vars

\* What one user sends to the registry with the steps that go wrong: menu
\* numbers in and out of range, the restart keyword and a pair of angle
\* brackets, inside and outside the debounce window.
RecoveryMessages == { <<"1">>, <<"2">>, <<"9">>, <<"#">>, <<"<", ">">> }

NextRecovery ==
    \/ \E userId \in Users, message \in RecoveryMessages, gap \in TurnGaps :
          ProcessMessage(userId, message, gap)
    \/ \E gap \in ReaperGaps : Cleanup(gap)

\* The engine with steps that go wrong, a hasty user and the reaper.
SpecRecovery == InitFaults /\ [][NextRecovery]_vars

\* [st, debounced]: n calls of processMessage for one user with the same
\* message, the first gap milliseconds after t and each gap milliseconds
\* after the one before; debounced says that every one of them was answered
\* with the debounce reply, and st is the store after the last of them (the
\* store of the first call that was heard, if one was).
RECURSIVE processMessages(_, _, _, _, _, _, _)
processMessages(st, fl, userId, message, t, gap, n) ==
    IF n = 0 THEN [st |-> st, debounced |-> TRUE]
    ELSE IF n = 1
    THEN LET r == processMessage(st, fl, userId, message, t + gap)
         IN [st |-> r.st, debounced |-> r.outcome = "debounced"]
    ELSE LET first == CHOOSE r \in {processMessages(st, fl, userId, message, t, gap, n \div 2)} :
                         TRUE
         IN IF ~first.debounced THEN first
            ELSE processMessages(first.st, fl, userId, message, t + (n \div 2) * gap, gap,
                                 n - (n \div 2))

\* The shortest run of messages sent just inside the debounce window that
\* lasts longer than the inactivity timeout.
StreamLength == CONVERSATION_TIMEOUT \div (DEBOUNCE_TIME - 1) + 1

\* A user who keeps sending the same message just inside the debounce
\* window, for longer than the inactivity timeout, and is debounced every
\* time: StreamLength calls of processMessage, of which `last` records the
\* last. The reaper runs that fall inside the stream find nothing to evict.
ProcessMessages(userId, message, gap) ==
    /\ turns < MaxTurns
    /\ \A i \in DOMAIN inflight : inflight[i].phase = "done"
    /\ now + StreamLength * gap < MaxTime
    /\ \E head \in {processMessages(store, flows, userId, message, now, gap, StreamLength - 1)} :
          /\ head.debounced
          /\ expired(head.st, now + (StreamLength - 1) * gap) = {}
          /\ \E t \in {now + StreamLength * gap} :
             \E r \in {processMessage(head.st, flows, userId, message, t)} :
                /\ r.outcome = "debounced"
                /\ now' = t
                /\ conversations' = r.st.conversations
                /\ messageHistory' = r.st.messageHistory
                /\ last' = Call("processMessage", userId, message, r.response, r.outcome, FALSE,
                                head.st)
    /\ turns' = turns + 1
    /\ UNCHANGED <<flows, trail, inflight>>

\* What the user of the streams sends, how long after the event before, and
\* how long after it the reaper's timer fires.
StreamMessages == { <<"1">>, <<"O","i">> }

StreamGaps == {DEBOUNCE_TIME - 2, DEBOUNCE_TIME}

StreamReaperGaps == {1}

\* A firing of the reaper that finds a session to evict.
Sweep(gap) ==
    /\ expired(store, now + gap) # {}
    /\ Cleanup(gap)

NextStream ==
    \/ \E userId \in Users, message \in StreamMessages, gap \in StreamGaps :
          ProcessMessage(userId, message, gap)
    \/ \E userId \in Users, message \in StreamMessages :
          ProcessMessages(userId, message, DEBOUNCE_TIME - 1)
    \/ \E gap \in StreamReaperGaps : Sweep(gap)

\* The engine with the built-in registry, a user who sends long streams of
\* messages and the reaper.
SpecStream == Init /\ [][NextStream]_vars

\* The engine with the built-in registry, a hasty user who also sends a
\* pair of angle brackets, and the reaper.
SpecBlank == Init /\ [][NextRecovery]_vars

\* The rules of type 'phone' a step can carry: the bare one, with a pattern,
\* with a minimum and with a maximum length, and one that is not required.
PhoneRules ==
    LET phone == [NoRule EXCEPT !.present = TRUE, !.type = "phone"]
    IN { phone,
         [phone EXCEPT !.pattern = "digits"],
         [phone EXCEPT !.minLength = 9],
         [phone EXCEPT !.maxLength = 12],
         [phone EXCEPT !.required = FALSE] }

\* A telephone number of n digits, plain and written as (dd) d...d-dddd.
plainPhone(n) == [i \in 1..n |-> Digits[(i % 10) + 1]]

writtenPhone(n) ==
    <<"(">> \o SubSeq(plainPhone(n), 1, 2) \o <<")", " ">>
    \o SubSeq(plainPhone(n), 3, n - 4) \o <<"-">> \o SubSeq(plainPhone(n), n - 3, n)

\* The inputs given to the phone rules: numbers of seven to twelve digits in
\* both writings, one between blanks, no input, blanks and a word.
PhoneInputs ==
    {plainPhone(n) : n \in 7..12} \cup {writtenPhone(n) : n \in 7..12}
    \cup { <<" ">> \o plainPhone(10) \o <<" ">>, <<>>, <<" ">>, <<"O","i">> }

\* A registry whose step 'system_status' asks for a telephone number under
\* one of the phone rules.
InitValidate ==
    /\ conversations = <<>>
    /\ messageHistory = <<>>
    /\ flows \in {addStep(initializeFlows, [AskNumberStep EXCEPT !.validation = rule]) :
                     rule \in PhoneRules}
    /\ now = 0
    /\ turns = 0
    /\ last = NoCall
    /\ trail = [userId \in Users |-> <<>>]
    /\ inflight = <<>>

\* One call of ValidationService.validateInput with the rule of the step.
ValidateInput(input) ==
    /\ turns < MaxOps
    /\ turns' = turns + 1
    /\ \E r \in {validateInput(input, flows["system_status"].validation)} :
          last' = Call("validateInput", "", input, createSimpleResponse(r.errorMessage),
                       "none", r.isValid, store)
    /\ UNCHANGED <<conversations, messageHistory, flows, now, trail, inflight>>

NextValidate == \E input \in PhoneInputs : ValidateInput(input)

\* The validation of telephone numbers.
SpecValidate == InitValidate /\ [][NextValidate]_vars

\* ------------------------------------------------------------- the claims

\* The last call was a turn; it was debounced; it was answered.
IsTurn == last.op = "processMessage"

Debounced == IsTurn /\ last.response.message = DebounceMessage

Answered == IsTurn /\ last.response.message # DebounceMessage

\* The session the last call met, and the one it left.
entered == fetched(last.before, last.userId, now)

current == conversations[last.userId]

\* C1: the second message of a new user, sent less than the debounce window
\* after the first, is answered with the debounce reply and leaves the
\* current step as it was.
C1_SecondMessageIsDebounced ==
    ( /\ IsTurn
      /\ turns = 2
      /\ hasSession(last.before, last.userId)
      /\ now - last.before.conversations[last.userId].lastMessageTime < DEBOUNCE_TIME )
    => /\ last.response.message = DebounceMessage
       /\ current.currentStep = last.before.conversations[last.userId].currentStep

\* C2: a debounced turn leaves every session as it was (none is created, no
\* field changes) and changes the message log only by appending its incoming
\* entry; the reply is not logged.
C2_DebouncedTurnOnlyLogsIncoming ==
    Debounced =>
        /\ conversations = last.before.conversations
        /\ last.userId \in DOMAIN last.before.messageHistory
        /\ messageHistory =
              [last.before.messageHistory EXCEPT ![last.userId] =
                  Append(@, ChatMessage(sanitizeInput(last.message), now, "incoming"))]

C2_Witness == Debounced /\ hasSession(store, last.userId) /\ current.attempts > 0

\* The trail of the user of the last call, and its last n entries.
userTrail == trail[last.userId]

lastEntries(tr, n) == SubSeq(tr, Len(tr) - n + 1, Len(tr))

endsWith(text, suffix) ==
    /\ Len(text) >= Len(suffix)
    /\ SubSeq(text, Len(text) - Len(suffix) + 1, Len(text)) = suffix

\* The last turn was answered and it closes a run of three invalid inputs of
\* one session, the first of which met a session with no failed attempt.
ThreeInvalidInARow ==
    /\ Answered
    /\ Len(userTrail) >= 3
    /\ \A i \in 1..3 : lastEntries(userTrail, 3)[i].invalid
    /\ lastEntries(userTrail, 3)[1].attempts = 0

\* C3: three invalid inputs in a row at a step, none of them debounced: the
\* first two leave the step pointer where it is and answer with a retry
\* message, the third returns the session to 'welcome' with an empty history
\* and zero attempts and answers with the too-many-attempts message.
C3_ThirdInvalidInputResets ==
    ThreeInvalidInARow =>
        /\ \A i \in 1..2 : /\ lastEntries(userTrail, 3)[i].kind = "retry"
                           /\ lastEntries(userTrail, 3)[i].to = lastEntries(userTrail, 3)[i].from
        /\ lastEntries(userTrail, 3)[3].kind = "reset"
        /\ last.response = createSimpleResponse(TooManyAttemptsMessage)
        /\ current.currentStep = "welcome"
        /\ current.stepHistory = <<>>
        /\ current.attempts = 0

C3_Witness ==
    /\ ThreeInvalidInARow
    /\ lastEntries(userTrail, 3)[1].from = "system_status"
    /\ last.response.message = TooManyAttemptsMessage

\* The last turn was answered, its input was invalid and it did not reset
\* the session.
FailedWithoutReset ==
    /\ Answered
    /\ userTrail # <<>>
    /\ userTrail[Len(userTrail)].invalid
    /\ last.response.message # TooManyAttemptsMessage

\* The hint of the tier of an attempt count.
tierSuffix(attempts) ==
    CASE attempts = 1 -> HintSuffix
      [] attempts = 2 -> NumericOnlySuffix
      [] OTHER -> LastAttemptSuffix

\* C4: a failed turn that does not reset leaves the current step and the
\* history unchanged, adds one to the attempts, and its reply ends with the
\* hint of the tier of the new count: the listed-options hint at 1, the
\* numbers-only hint at 2, the final warning at 3 or more.
C4_FailedTurnKeepsStepAndCounts ==
    /\ FailedWithoutReset =>
           /\ current.currentStep = entered.currentStep
           /\ current.stepHistory = entered.stepHistory
           /\ current.attempts = entered.attempts + 1
           /\ endsWith(last.response.message, tierSuffix(current.attempts))
    /\ \A attempts \in 1..(MAX_ATTEMPTS + 1) :
           endsWith(buildValidationErrorMessage(attempts, <<>>), tierSuffix(attempts))

C4_Witness ==
    /\ FailedWithoutReset
    /\ current.attempts = 2
    /\ entered.currentStep = "system_status"

\* The last call was a store operation that changed the step: a moveToStep
\* to another step, a goBackToPreviousStep that returned true, or a
\* restartConversation.
IsStoreCall ==
    last.op \in {"moveToStep", "goBackToPreviousStep", "restartConversation",
                 "incrementAttempts"}

Transitioned ==
    \/ last.op = "moveToStep" /\ current.currentStep # entered.currentStep
    \/ last.op = "goBackToPreviousStep" /\ last.result
    \/ last.op = "restartConversation"

\* C5: the attempts are 0 right after a moveToStep that changed the step,
\* after a goBackToPreviousStep that succeeded and after a restart; any other
\* store operation never lowers them.
C5_AttemptsZeroAfterTransition ==
    IsStoreCall =>
        /\ Transitioned => current.attempts = 0
        /\ ~Transitioned => current.attempts >= entered.attempts

C5_Witness ==
    /\ last.op = "goBackToPreviousStep"
    /\ last.result
    /\ entered.attempts > 0
    /\ current.attempts = 0

\* The turns of a trail, and the turns that count for the attempts: those
\* that are not a re-rendered menu, a refused back or a move to the step that
\* was already current.
turnsOf(tr) == SelectSeq(tr, LAMBDA e : e.kind # "evicted")

leavesAttempts(e) ==
    \/ e.kind \in {"rerender", "back_refused"}
    \/ e.kind = "moved" /\ e.to = e.from

countedTurns(tr) == SelectSeq(tr, LAMBDA e : ~leavesAttempts(e))

lastThreeInvalid(tr) ==
    /\ Len(tr) >= 3
    /\ \A i \in 1..3 : lastEntries(tr, 3)[i].invalid

WasReset == Answered /\ last.response.message = TooManyAttemptsMessage

\* C6 as stated: the session is reset for too many attempts only when the
\* three most recent turns that were not debounced were all failures.
C6_ResetOnlyAfterThreeFailedTurns ==
    WasReset => lastThreeInvalid(turnsOf(userTrail))

\* C6: the session is reset for too many attempts only at the third failure
\* since the attempts were last set to 0: of the turns that were not
\* debounced, leaving aside those that keep the step and the attempts (a
\* re-rendered welcome menu, a refused back, a move to the step already
\* current), the three most recent were all failures of one session.
C6_ResetOnlyAfterThreeCountedFailures ==
    WasReset => lastThreeInvalid(countedTurns(userTrail))

C6_Witness ==
    /\ WasReset
    /\ ~lastThreeInvalid(turnsOf(userTrail))

\* The goBackToPreviousStep calls that close a trail, and the moveToStep
\* calls to another step that come directly before them.
RECURSIVE backsAtEnd(_)
backsAtEnd(tr) ==
    IF tr # <<>> /\ tr[Len(tr)].kind = "goBackToPreviousStep"
    THEN 1 + backsAtEnd(SubSeq(tr, 1, Len(tr) - 1))
    ELSE 0

RECURSIVE movesAtEnd(_)
movesAtEnd(tr) ==
    IF tr # <<>> /\ tr[Len(tr)].kind = "moveToStep" /\ tr[Len(tr)].to # tr[Len(tr)].from
    THEN 1 + movesAtEnd(SubSeq(tr, 1, Len(tr) - 1))
    ELSE 0

backCount(tr) == backsAtEnd(tr)

moveCount(tr) == movesAtEnd(SubSeq(tr, 1, Len(tr) - backCount(tr)))

\* The i-th back of the closing run and the j-th move of the run before it.
backAt(tr, i) == tr[Len(tr) - backCount(tr) + i]

moveAt(tr, j) == tr[Len(tr) - backCount(tr) - moveCount(tr) + j]

\* The first n backs after n moves succeed and walk the steps left by the
\* moves in reverse order.
backsRetraceMoves(tr) ==
    \A i \in 1..backCount(tr) :
        i <= moveCount(tr) =>
            /\ backAt(tr, i).result
            /\ backAt(tr, i).to = moveAt(tr, moveCount(tr) - i + 1).from

\* C7 as stated: from any session, after n moves each to a step other than
\* the current one, n backs succeed and retrace the path in reverse, and the
\* (n+1)-th back fails.
C7_BacksRetraceThenFail ==
    \A userId \in Users :
        moveCount(trail[userId]) >= 1 =>
            /\ backsRetraceMoves(trail[userId])
            /\ backCount(trail[userId]) > moveCount(trail[userId]) =>
                   ~backAt(trail[userId], moveCount(trail[userId]) + 1).result

\* C7: after n moves each to a step other than the current one, n backs
\* succeed and retrace the path in reverse; the (n+1)-th back fails when the
\* history was empty before the first move, and succeeds when it was not.
C7_BacksRetraceThenFailFromEmptyHistory ==
    \A userId \in Users :
        moveCount(trail[userId]) >= 1 =>
            /\ backsRetraceMoves(trail[userId])
            /\ backCount(trail[userId]) > moveCount(trail[userId]) =>
                   (backAt(trail[userId], moveCount(trail[userId]) + 1).result
                        <=> moveAt(trail[userId], 1).depth > 0)

C7_Witness ==
    \E userId \in Users :
        /\ moveCount(trail[userId]) >= 2
        /\ backCount(trail[userId]) = moveCount(trail[userId]) + 1
        /\ moveAt(trail[userId], 1).depth = 0
        /\ ~backAt(trail[userId], backCount(trail[userId])).result

\* The last turn was answered and its message is a control keyword.
keywordOf(message) == isControlKeyword(sanitizeInput(message)).type

RestartTurn == Answered /\ keywordOf(last.message) = "restart"

BackTurn == Answered /\ keywordOf(last.message) = "back"

welcomeOptions ==
    [i \in 1..Len(WelcomeStep.options) |->
        numberText(i) \o <<".", " ">> \o WelcomeStep.options[i].text]

\* C8: a restart keyword in a turn that is not debounced puts the session at
\* 'welcome' with an empty history and zero attempts, and the reply is the
\* restart banner followed by the welcome text, with the welcome options.
C8_RestartKeywordRestarts ==
    RestartTurn =>
        /\ current.currentStep = "welcome"
        /\ current.stepHistory = <<>>
        /\ current.attempts = 0
        /\ last.response.message = RestartBanner \o WelcomeStep.message
        /\ last.response.options = welcomeOptions

C8_Witness ==
    /\ RestartTurn
    /\ entered.currentStep # "welcome"
    /\ entered.attempts > 0

\* C9: a back keyword in a turn that is not debounced, when the history is
\* not empty, pops its top into the current step and answers with the back
\* banner followed by that step's rendering; when the history is empty it
\* answers that there is no going back and leaves the current step, the
\* history and the attempts as they were.
C9_BackKeywordPopsOrRefuses ==
    BackTurn =>
        IF entered.stepHistory # <<>>
        THEN /\ current.currentStep = entered.stepHistory[Len(entered.stepHistory)]
             /\ current.stepHistory = SubSeq(entered.stepHistory, 1, Len(entered.stepHistory) - 1)
             /\ last.response.message = BackBanner \o flows[current.currentStep].message
             /\ last.response.options = buildStepResponse(flows[current.currentStep]).options
        ELSE /\ last.response = createSimpleResponse(CannotGoBackMessage)
             /\ current.currentStep = entered.currentStep
             /\ current.stepHistory = entered.stepHistory
             /\ current.attempts = entered.attempts

C9_Witness ==
    /\ BackTurn
    /\ Len(entered.stepHistory) >= 2
    /\ current.currentStep # "welcome"

\* The step the last turn met forbids the keyword it was sent.
BackForbidden == BackTurn /\ ~flows[entered.currentStep].allowBack

RestartForbidden == RestartTurn /\ ~flows[entered.currentStep].allowRestart

\* The incoming entry of the last turn is still in the log: a restart would
\* have cleared it.
incomingKept ==
    \E i \in 1..Len(messageHistory[last.userId]) :
        messageHistory[last.userId][i] = ChatMessage(sanitizeInput(last.message), now, "incoming")

\* C10 as stated: at a step whose allowBack is false a back keyword does not
\* move the session, and at a step whose allowRestart is false a restart
\* keyword does not restart it.
C10_ForbiddenKeywordIgnored ==
    /\ BackForbidden => /\ current.currentStep = entered.currentStep
                        /\ current.stepHistory = entered.stepHistory
    /\ RestartForbidden => /\ incomingKept
                           /\ last.response.message # RestartBanner \o WelcomeStep.message

\* The last reply renders the step the session is at, alone or after a
\* banner.
RendersCurrentStep ==
    /\ Answered
    /\ last.response.message \in
           { banner \o flows[current.currentStep].message :
                 banner \in {<<>>, BackBanner, RestartBanner} }

\* C10: allowBack and allowRestart decide only whether the rendering of a
\* step carries the "0 - back" and "# - restart" hints; the keywords are
\* honoured at every step, also where the flag is false.
C10_FlagsOnlyControlTheHints ==
    /\ (BackForbidden /\ entered.stepHistory # <<>>) =>
           /\ current.currentStep = entered.stepHistory[Len(entered.stepHistory)]
           /\ startsAt(last.response.message, 1, BackBanner)
    /\ RestartForbidden =>
           /\ ~incomingKept
           /\ current = initialState(now)
           /\ last.response.message = RestartBanner \o WelcomeStep.message
    /\ RendersCurrentStep =>
           /\ (\E i \in 1..Len(last.response.options) : last.response.options[i] = BackHint)
                  <=> flows[current.currentStep].allowBack
           /\ (\E i \in 1..Len(last.response.options) : last.response.options[i] = RestartHint)
                  <=> flows[current.currentStep].allowRestart

C10_Witness ==
    /\ RestartForbidden
    /\ entered.attempts > 0
    /\ last.response.message = RestartBanner \o WelcomeStep.message

\* The last call was the first message of a user that had neither a session
\* nor a log, and the message is no positive-integer string.
FreshFirstMessage ==
    /\ IsTurn
    /\ ~hasSession(last.before, last.userId)
    /\ last.userId \notin DOMAIN last.before.messageHistory
    /\ ~isPositiveIntegerString(trim(sanitizeInput(last.message)))

AtFreshWelcome ==
    /\ current.currentStep = "welcome"
    /\ current.stepHistory = <<>>
    /\ current.attempts = 0

\* C11 as stated: the first message of a fresh user that is no
\* positive-integer string is answered with the welcome text and exactly its
\* three numbered options, without hints, and leaves the session at
\* 'welcome' with an empty history.
C11_FirstMessageShowsWelcome ==
    FreshFirstMessage =>
        /\ endsWith(last.response.message, WelcomeStep.message)
        /\ last.response.options = welcomeOptions
        /\ current.currentStep = "welcome"
        /\ current.stepHistory = <<>>

\* C11: the first message of a fresh user that is no positive-integer string
\* leaves the session at 'welcome' with an empty history; when it is no
\* control keyword the answer is the welcome text with exactly its three
\* numbered options and no hints, a restart keyword gets the same after the
\* restart banner, and a back keyword gets the cannot-go-back notice with no
\* options at all.
C11_FirstMessageShowsWelcomeUnlessBack ==
    FreshFirstMessage =>
        /\ AtFreshWelcome
        /\ keywordOf(last.message) = "null" =>
               last.response = [message |-> WelcomeStep.message, options |-> welcomeOptions]
        /\ keywordOf(last.message) = "restart" =>
               last.response = [message |-> RestartBanner \o WelcomeStep.message,
                                options |-> welcomeOptions]
        /\ keywordOf(last.message) = "back" =>
               last.response = createSimpleResponse(CannotGoBackMessage)

C11_Witness ==
    /\ FreshFirstMessage
    /\ keywordOf(last.message) = "null"
    /\ Len(last.response.options) = 3

\* The last turn met the session at 'welcome' with an empty history, and its
\* message is neither a control keyword nor a positive-integer string.
FirstMenuCarveOut ==
    /\ Answered
    /\ keywordOf(last.message) = "null"
    /\ entered.currentStep = "welcome"
    /\ entered.stepHistory = <<>>
    /\ ~isPositiveIntegerString(trim(sanitizeInput(last.message)))

\* C12: at 'welcome' with an empty history, an input that is no control
\* keyword and no positive-integer string only re-renders the welcome step:
\* the current step, the history and the attempts stay as they were, also
\* when the input is the key or part of the label of an option.
C12_FirstMenuIsOnlyRerendered ==
    FirstMenuCarveOut =>
        /\ current.currentStep = "welcome"
        /\ current.stepHistory = <<>>
        /\ current.attempts = entered.attempts
        /\ current.data = entered.data
        /\ last.response = buildStepResponse(WelcomeStep)

C12_Witness ==
    /\ FirstMenuCarveOut
    /\ last.message = <<"h","e","l","p">>
    /\ entered.attempts > 0

\* The last turn was resolved by the options table of its step: no control
\* keyword, not the re-rendering of the first menu, a step with options and
\* neither rule, action nor configured target.
ResolvedByOptions ==
    /\ Answered
    /\ keywordOf(last.message) = "null"
    /\ ~FirstMenuCarveOut
    /\ hasStep(flows, entered.currentStep)
    /\ flows[entered.currentStep].options # <<>>
    /\ flows[entered.currentStep].nextStep.kind = "none"
    /\ flows[entered.currentStep].action = "none"
    /\ ~flows[entered.currentStep].validation.present

\* The target the options table gives when only an input that is a positive
\* integer selects by number.
targetByWholeNumber(userInput, step) ==
    LET input == trim(userInput)
        normalizedInput == toLowerCase(input)
        isInteger == input # <<>> /\ \A i \in DOMAIN input : IsDigit(input[i])
        matches == {i \in DOMAIN step.options :
                       \/ includes(toLowerCase(step.options[i].text), normalizedInput)
                       \/ toLowerCase(step.options[i].key) = normalizedInput}
    IN IF isInteger /\ digitsValue(input) >= 1 /\ digitsValue(input) <= Len(step.options)
       THEN step.options[digitsValue(input)].nextStep
       ELSE IF matches # {} THEN step.options[Min(matches)].nextStep
       ELSE "validation_error"

\* C13: at a step governed by its options table an input that is a positive
\* integer k within the table moves the session to the k-th option's target;
\* otherwise the first option whose key equals the input or whose label
\* contains it is taken; when none matches the turn is a failure and the
\* step stays (or the session is reset at the ceiling).
C13_OptionsResolveByNumberKeyOrLabel ==
    ResolvedByOptions =>
        IF targetByWholeNumber(sanitizeInput(last.message), flows[entered.currentStep])
               = "validation_error"
        THEN current.currentStep = entered.currentStep \/ WasReset
        ELSE current.currentStep
                 = targetByWholeNumber(sanitizeInput(last.message), flows[entered.currentStep])

\* C14: every call of processMessage, whatever the input and whatever the
\* registered steps do (a validator or a computed target that raises
\* included), ends with a response; no fault reaches the caller.
C14_EveryTurnIsAnswered ==
    IsTurn => last.outcome # "fault"

\* The last turn ran the action of its step and the action raised: no
\* control keyword, not the re-rendering of the first menu, the input
\* accepted by the step's rule.
ActionRaised ==
    /\ Answered
    /\ keywordOf(last.message) = "null"
    /\ ~FirstMenuCarveOut
    /\ hasStep(flows, entered.currentStep)
    /\ flows[entered.currentStep].action = "fail"
    /\ \/ ~flows[entered.currentStep].validation.present
       \/ /\ ~isFault(validateInput(sanitizeInput(last.message),
                                    flows[entered.currentStep].validation))
          /\ validateInput(sanitizeInput(last.message),
                           flows[entered.currentStep].validation).isValid

\* C15: when the action of the current step raises, the turn leaves the
\* session at 'welcome' with an empty history, no data and zero attempts,
\* makes no move to the step's target, and answers with the rendering of the
\* 'error' step and nothing else.
C15_ActionFaultResetsAndAnswersGenerically ==
    ActionRaised =>
        /\ AtFreshWelcome
        /\ current.data = <<>>
        /\ current.currentStep # flows[entered.currentStep].nextStep.target
        /\ last.response = buildStepResponse(ErrorStep)
        /\ messageHistory[last.userId] = <<ChatMessage(ErrorStep.message, now, "outgoing")>>

C15_Witness ==
    /\ ActionRaised
    /\ entered.currentStep = "tickets_menu"
    /\ entered.stepHistory # <<>>
    /\ last.response.message = ErrorStep.message

\* The last turn resolved to the configured target of its step, and that
\* target is not registered.
UnresolvedTarget ==
    /\ Answered
    /\ keywordOf(last.message) = "null"
    /\ ~FirstMenuCarveOut
    /\ hasStep(flows, entered.currentStep)
    /\ flows[entered.currentStep].nextStep.kind = "static"
    /\ ~hasStep(flows, flows[entered.currentStep].nextStep.target)
    /\ last.outcome = "moved"

\* C16: a turn whose resolved target is not registered ends at 'welcome' and
\* answers with the rendering of the welcome step; the unregistered id is
\* never the current step nor an entry of the history of any session.
C16_UnresolvedTargetFallsBackToWelcome ==
    /\ UnresolvedTarget =>
           /\ current.currentStep = "welcome"
           /\ last.response = buildStepResponse(WelcomeStep)
    /\ \A userId \in DOMAIN conversations :
           /\ hasStep(flows, conversations[userId].currentStep)
           /\ \A i \in DOMAIN conversations[userId].stepHistory :
                  hasStep(flows, conversations[userId].stepHistory[i])

C16_Witness ==
    /\ UnresolvedTarget
    /\ flows[entered.currentStep].nextStep.target = "missing_step"
    /\ current.stepHistory = <<"welcome", "system_status">>

\* What a Map holds for a key: <<value>>, or <<>> when the key is absent.
entryOf(map, key) == IF key \in DOMAIN map THEN <<map[key]>> ELSE <<>>

\* C17: a turn for one user, the recoveries it triggers included, leaves the
\* session and the log of every other user, and the registry, as they were.
C17_TurnTouchesOnlyItsUser ==
    IsTurn =>
        /\ \A userId \in FaultUsers \ {last.userId} :
               /\ entryOf(conversations, userId) = entryOf(last.before.conversations, userId)
               /\ entryOf(messageHistory, userId) = entryOf(last.before.messageHistory, userId)
        /\ flows = FaultFlows

C17_Witness ==
    /\ IsTurn
    /\ last.outcome \in {"reset", "error"}
    /\ \E userId \in FaultUsers \ {last.userId} :
           /\ hasSession(store, userId)
           /\ conversations[userId].stepHistory # <<>>
           /\ messageHistory[userId] # <<>>

\* The last call was a run of the reaper; the users whose session it found
\* older than the timeout.
IsReaperRun == last.op = "cleanupExpiredConversations"

overdue ==
    {userId \in DOMAIN last.before.conversations :
        now - last.before.conversations[userId].lastMessageTime > CONVERSATION_TIMEOUT}

\* The last call was the first turn of a user after the reaper evicted it.
FirstTurnAfterEviction ==
    /\ IsTurn
    /\ Len(userTrail) >= 2
    /\ userTrail[Len(userTrail) - 1].kind = "evicted"

\* C20: a run of the reaper removes exactly the sessions older than the
\* timeout, each together with its log, and leaves every other session and
\* log as it was; the next message of an evicted user is handled as the
\* first message of a new user.
C20_ReaperEvictsExactlyTheOverdue ==
    /\ IsReaperRun =>
           /\ DOMAIN conversations = DOMAIN last.before.conversations \ overdue
           /\ DOMAIN messageHistory = DOMAIN last.before.messageHistory \ overdue
           /\ \A userId \in DOMAIN conversations :
                  conversations[userId] = last.before.conversations[userId]
           /\ \A userId \in DOMAIN messageHistory :
                  messageHistory[userId] = last.before.messageHistory[userId]
    /\ FirstTurnAfterEviction =>
           \E new \in {processMessage([conversations |-> <<>>, messageHistory |-> <<>>],
                                      flows, last.userId, last.message, now)} :
               /\ last.response = new.response
               /\ conversations[last.userId] = new.st.conversations[last.userId]
               /\ messageHistory[last.userId] = new.st.messageHistory[last.userId]

C20_Witness ==
    /\ FirstTurnAfterEviction
    /\ \E userId \in FaultUsers \ {last.userId} :
           /\ hasSession(last.before, userId)
           /\ conversations[userId].stepHistory # <<>>

\* What a user's conversation has come to, without the clock readings: the
\* session's step, history, attempts and data, and the log's messages with
\* their directions.
conversationOf(st, userId) ==
    [session |-> IF hasSession(st, userId)
                 THEN <<[currentStep |-> st.conversations[userId].currentStep,
                         stepHistory |-> st.conversations[userId].stepHistory,
                         attempts |-> st.conversations[userId].attempts,
                         data |-> st.conversations[userId].data]>>
                 ELSE <<>>,
     log |-> IF userId \in DOMAIN st.messageHistory
             THEN [i \in DOMAIN st.messageHistory[userId] |->
                      [message |-> st.messageHistory[userId][i].message,
                       messageType |-> st.messageHistory[userId][i].messageType]]
             ELSE <<>>]

\* Two calls of processMessage for one user run one after the other.
oneAfterTheOther(st, fl, userId, first, t1, second, t2) ==
    processMessage(processMessage(st, fl, userId, first, t1).st, fl, userId, second, t2).st

\* What the conversation of a turn that waited, and of the one turn that ran
\* meanwhile, can come to when the two run one after the other, in either
\* order, at any two of the moments the overlapping calls began and ended.
serialOutcomes(p) ==
    { conversationOf(oneAfterTheOther(p.before, flows, p.userId, pair[1], at[1], pair[2], at[2]),
                     p.userId) :
        pair \in { <<p.message, p.between[1].message>>, <<p.between[1].message, p.message>> },
        at \in { <<p.began, p.between[1].at>>, <<p.began, p.finished>>,
                 <<p.between[1].at, p.finished>> } }

\* A turn that waited for its action has returned, exactly one other turn of
\* the same user ran during the wait, and the reaper did not.
TwoTurnsOverlapped ==
    /\ inflight # <<>>
    /\ inflight[1].phase = "done"
    /\ Len(inflight[1].between) = 1
    /\ ~inflight[1].reaped

\* C18: two calls of processMessage for the same user never interleave: the
\* session and the message log they leave are those of the two turns run one
\* after the other in some order, also when the step's action is awaited.
C18_OverlappingTurnsAreSerializable ==
    TwoTurnsOverlapped =>
        conversationOf(inflight[1].after, inflight[1].userId) \in serialOutcomes(inflight[1])

\* C19: the reaper never evicts a user's session while a turn of that user is
\* in flight, so no turn goes on with a session object that is no longer in
\* the store.
C19_ReaperSparesSessionsInFlight ==
    \A i \in DOMAIN inflight : inflight[i].object # "evicted"

\* C21: every turn for a user who has a session, a debounced one included,
\* sets the session's lastMessageTime to the time of the turn.
C21_EveryTurnRefreshesActivity ==
    (IsTurn /\ hasSession(last.before, last.userId)) =>
        /\ hasSession(store, last.userId)
        /\ current.lastMessageTime = now

\* The last turn resolved its input to 'validation_error': no control
\* keyword, not the re-rendering of the first menu, an input the step's rule
\* accepts, and a transition that gives the reserved id.
ResolvedToValidationError ==
    /\ Answered
    /\ keywordOf(last.message) = "null"
    /\ ~FirstMenuCarveOut
    /\ hasStep(flows, entered.currentStep)
    /\ \/ ~flows[entered.currentStep].validation.present
       \/ /\ ~isFault(validateInput(sanitizeInput(last.message),
                                    flows[entered.currentStep].validation))
          /\ validateInput(sanitizeInput(last.message),
                           flows[entered.currentStep].validation).isValid
    /\ callAction(flows[entered.currentStep].action, sanitizeInput(last.message), entered).ok
    /\ ~isFault(processUserInput(flows, sanitizeInput(last.message), entered.currentStep,
                                 entered))
    /\ processUserInput(flows, sanitizeInput(last.message), entered.currentStep,
                        entered).nextStepId = "validation_error"

inHistory(stepId, state) == \E i \in DOMAIN state.stepHistory : state.stepHistory[i] = stepId

\* C22: after every turn no session has 'validation_error' as its current
\* step or in its history; a turn that resolves to 'validation_error' ends
\* either as a retry, with the step and the history as they were and one
\* attempt more, or as a reset to 'welcome' with an empty history.
C22_ValidationErrorNeverRests ==
    /\ \A userId \in DOMAIN conversations :
          /\ conversations[userId].currentStep # "validation_error"
          /\ ~inHistory("validation_error", conversations[userId])
    /\ ResolvedToValidationError =>
          \/ /\ last.outcome = "retry"
             /\ current.currentStep = entered.currentStep
             /\ current.stepHistory = entered.stepHistory
             /\ current.attempts = entered.attempts + 1
          \/ /\ last.outcome = "reset"
             /\ entered.attempts + 1 >= MAX_ATTEMPTS
             /\ current.currentStep = "welcome"
             /\ current.stepHistory = <<>>
             /\ current.attempts = 0

C22_Witness ==
    /\ ResolvedToValidationError
    /\ last.outcome = "retry"
    /\ entered.currentStep = "tickets_menu"
    /\ current.attempts = 2

\* The last turn resolved its input to 'error': no control keyword, not the
\* re-rendering of the first menu, and a step with no options, no configured
\* next step, no rule and no action.
ResolvedToError ==
    /\ Answered
    /\ keywordOf(last.message) = "null"
    /\ ~FirstMenuCarveOut
    /\ hasStep(flows, entered.currentStep)
    /\ flows[entered.currentStep].options = <<>>
    /\ flows[entered.currentStep].nextStep.kind = "none"
    /\ flows[entered.currentStep].action = "none"
    /\ ~flows[entered.currentStep].validation.present

\* C23: a turn whose transition resolves to 'error' leaves the session reset
\* to 'welcome' with an empty history, and 'error' is never the current step
\* of a session after a turn.
C23_ErrorResetsToWelcome ==
    /\ ResolvedToError =>
          /\ current.currentStep = "welcome"
          /\ current.stepHistory = <<>>
          /\ current.attempts = 0
    /\ \A userId \in DOMAIN conversations : conversations[userId].currentStep # "error"

\* The ids a registered step can hand to the engine: the targets of its
\* options, its configured target, and the reserved id its options table
\* gives when nothing is selected.
targetsOf(fl, stepId) ==
    IF ~hasStep(fl, stepId) THEN {}
    ELSE {fl[stepId].options[i].nextStep : i \in DOMAIN fl[stepId].options}
         \cup (IF fl[stepId].nextStep.kind = "static" THEN {fl[stepId].nextStep.target} ELSE {})
         \cup (IF fl[stepId].nextStep.kind # "none" THEN {}
               ELSE IF fl[stepId].options = <<>> THEN {"error"} ELSE {"validation_error"})

\* The ids that can be reached from a set of ids by following targets.
RECURSIVE reachableFrom(_, _)
reachableFrom(fl, ids) ==
    LET further == ids \cup UNION {targetsOf(fl, stepId) : stepId \in ids}
    IN IF further = ids THEN ids ELSE reachableFrom(fl, further)

\* C24: with the built-in registry every target of every step that can be
\* reached from 'welcome' is a registered step, and after any sequence of
\* turns the current step and every entry of the history of every session
\* is a registered step.
C24_NoDanglingStep ==
    /\ \A stepId \in reachableFrom(flows, {"welcome"}) : hasStep(flows, stepId)
    /\ \A userId \in DOMAIN conversations :
          /\ hasStep(flows, conversations[userId].currentStep)
          /\ \A i \in DOMAIN conversations[userId].stepHistory :
                hasStep(flows, conversations[userId].stepHistory[i])

C24_Witness ==
    /\ reachableFrom(flows, {"welcome"}) = DOMAIN flows \ {"error"}
    /\ \E userId \in DOMAIN conversations :
          /\ conversations[userId].currentStep = "tickets_menu"
          /\ conversations[userId].stepHistory = <<"welcome", "tickets_menu", "list_tickets">>

\* The outgoing entries the last turn appended to its user's log.
loggedByTurn ==
    SelectSeq(getMessageHistory(store, last.userId),
              LAMBDA msg : msg.messageType = "outgoing" /\ msg.timestamp = now)

\* C25: a turn that is not debounced appends the text it returns to the
\* user's log as exactly one outgoing entry, and appends nothing when that
\* text repeats one of the two most recent outgoing entries.
C25_ReplyIsLoggedOnce ==
    Answered =>
        IF isRepeatedMessage(last.before, last.userId, last.response.message)
        THEN loggedByTurn = <<>>
        ELSE /\ Len(loggedByTurn) = 1
             /\ loggedByTurn[1].message = last.response.message

\* The last call was a fetch of the controller: of a user's session state or
\* of a user's message log.
IsFetch == last.op \in {"getConversationState", "getMessageHistory"}

\* C26: fetching a user's session state or message log through the
\* controller is read-only: it creates no session, changes no field of any
\* session and changes no message log.
C26_FetchIsReadOnly ==
    IsFetch => store = last.before

\* The inputs tried on a session to see whether it can move: the first menu
\* number and a number no menu has. Neither is a control keyword.
ProbeInputs == { <<"1">>, <<"9">> }

\* The step a user is at after a turn with the given message, one debounce
\* window after time t.
stepAfter(st, fl, userId, message, t) ==
    processMessage(st, fl, userId, message, t + DEBOUNCE_TIME).st.conversations[userId].currentStep

\* Whether the user is at 'welcome' after at most n turns in which it sends
\* the number no menu has, one debounce window apart.
RECURSIVE wrongNumbersLeadToWelcome(_, _, _, _, _)
wrongNumbersLeadToWelcome(st, fl, userId, t, n) ==
    \/ st.conversations[userId].currentStep = "welcome"
    \/ /\ n > 0
       /\ \E next \in {processMessage(st, fl, userId, <<"9">>, t + DEBOUNCE_TIME).st} :
              wrongNumbersLeadToWelcome(next, fl, userId, t + DEBOUNCE_TIME, n - 1)

\* C27: with the built-in registry no session is stuck: at every session
\* some input that is no control keyword changes the current step, and
\* 'welcome' is reached again by a finite sequence of inputs.
C27_NoStuckSession ==
    \A userId \in DOMAIN conversations :
        /\ \E message \in ProbeInputs :
              /\ isControlKeyword(sanitizeInput(message)).type = "null"
              /\ stepAfter(store, flows, userId, message, now)
                     # conversations[userId].currentStep
        /\ wrongNumbersLeadToWelcome(store, flows, userId, now, MAX_ATTEMPTS + 1)

C27_Witness ==
    \E userId \in DOMAIN conversations :
        /\ conversations[userId].currentStep = "create_ticket"
        /\ stepAfter(store, flows, userId, <<"9">>, now) = "tickets_menu"
        /\ ~wrongNumbersLeadToWelcome(store, flows, userId, now, MAX_ATTEMPTS)

\* The debounce windows the check is asked about: none, the shortest, the
\* engine's and one longer than any run of the model.
DebounceWindows == {0, 1, DEBOUNCE_TIME, CONVERSATION_TIMEOUT * 2}

\* The positions of the incoming entries of a log.
incomingAt(log) == {i \in DOMAIN log : log[i].messageType = "incoming"}

\* The last call was a turn of a user that had neither a session nor a log.
FirstMessageEver ==
    /\ IsTurn
    /\ ~hasSession(last.before, last.userId)
    /\ last.userId \notin DOMAIN last.before.messageHistory

\* C28: the first message ever received from a user is not answered with
\* the debounce reply, whatever the window; shouldDebounce is true only when
\* the log has at least two incoming entries and the latest two are less
\* than the window apart.
C28_FirstMessageIsNeverDebounced ==
    /\ FirstMessageEver =>
          /\ ~Debounced
          /\ \A debounceMs \in DebounceWindows :
                ~shouldDebounce(addIncomingMessage(last.before, last.userId,
                                                   sanitizeInput(last.message), now),
                                last.userId, debounceMs)
    /\ \A userId \in Users, debounceMs \in DebounceWindows :
          shouldDebounce(store, userId, debounceMs) =>
              \E i, j \in incomingAt(getMessageHistory(store, userId)) :
                 /\ i < j
                 /\ \A k \in incomingAt(getMessageHistory(store, userId)) : k <= i \/ k = j
                 /\ getMessageHistory(store, userId)[j].timestamp
                        - getMessageHistory(store, userId)[i].timestamp < debounceMs

C28_Witness ==
    /\ FirstMessageEver
    /\ now < DEBOUNCE_TIME
    /\ Answered

\* C29: after any sequence of moveToStep, goBackToPreviousStep and
\* restartConversation calls, a history that is not empty ends with a step
\* other than the current one, and no two neighbours in it are equal.
C29_HistoryNeverRepeatsItsNeighbour ==
    \A userId \in DOMAIN conversations :
        /\ conversations[userId].stepHistory # <<>> =>
              conversations[userId].stepHistory[Len(conversations[userId].stepHistory)]
                  # conversations[userId].currentStep
        /\ \A i \in 1..(Len(conversations[userId].stepHistory) - 1) :
              conversations[userId].stepHistory[i] # conversations[userId].stepHistory[i + 1]

C29_Witness ==
    /\ last.op = "goBackToPreviousStep"
    /\ last.result
    /\ Len(current.stepHistory) >= 2
    /\ \E i \in DOMAIN trail[last.userId] :
          /\ trail[last.userId][i].kind = "moveToStep"
          /\ trail[last.userId][i].to = trail[last.userId][i].from

\* The last call was a restart from outside a turn: the controller's, or the
\* store's operation called directly.
ForcedRestart == last.op = "restartConversation"

\* The last turn reset the session for too many attempts.
ForcedReset == Answered /\ last.outcome = "reset"

\* C30: a restart, by keyword, by the controller or by the reset for too
\* many attempts, leaves a new session at 'welcome' with an empty history,
\* zero attempts and no data, whatever the session was, and empties the
\* user's log: after the call the log holds nothing but the replies the
\* restart keyword's turn logs after the restart.
C30_RestartStartsAfresh ==
    (ForcedRestart \/ ForcedReset \/ RestartTurn) =>
        /\ hasSession(store, last.userId)
        /\ current = initialState(now)
        /\ \A i \in DOMAIN getMessageHistory(store, last.userId) :
              /\ RestartTurn
              /\ getMessageHistory(store, last.userId)[i].messageType = "outgoing"
              /\ getMessageHistory(store, last.userId)[i].timestamp = now

C30_Witness ==
    /\ ForcedRestart
    /\ hasSession(last.before, last.userId)
    /\ last.before.conversations[last.userId].currentStep = "welcome"
    /\ last.before.conversations[last.userId].stepHistory = <<"welcome", "system_status">>
    /\ last.before.conversations[last.userId].data # <<>>
    /\ getMessageHistory(last.before, last.userId) # <<>>

\* The outgoing entries of a user's log, in order.
outgoingOf(st, userId) ==
    SelectSeq(getMessageHistory(st, userId), LAMBDA msg : msg.messageType = "outgoing")

\* The last turn returned a text that repeats one of the two most recent
\* outgoing entries of the log it met, on a branch that logs its reply.
RepeatedReply ==
    /\ Answered
    /\ last.outcome \in {"rerender", "moved", "retry", "back"}
    /\ isRepeatedMessage(last.before, last.userId, last.response.message)

\* C31: a reply that repeats, case and surrounding blanks aside, one of the
\* two most recent outgoing entries is returned but not logged; so no
\* outgoing entry of a log equals either of the two outgoing entries before
\* it.
C31_RepeatedReplyIsNotLogged ==
    /\ RepeatedReply =>
          /\ last.response.message # <<>>
          /\ loggedByTurn = <<>>
          /\ outgoingOf(store, last.userId) = outgoingOf(last.before, last.userId)
    /\ \A userId \in DOMAIN messageHistory :
          \A i, j \in DOMAIN outgoingOf(store, userId) :
             (j < i /\ i - j <= 2) =>
                 trim(toLowerCase(outgoingOf(store, userId)[i].message))
                     # trim(toLowerCase(outgoingOf(store, userId)[j].message))

C31_Witness ==
    /\ RepeatedReply
    /\ last.outcome = "moved"
    /\ Len(outgoingOf(store, last.userId)) >= 2

\* C32: after any sequence of logged messages a user's log holds at most 50
\* entries, and they are the most recently appended ones in the order they
\* arrived: the entries of the n-th calls, for the latest n.
C32_LogKeepsTheLatestFifty ==
    \A userId \in DOMAIN messageHistory :
        /\ Len(messageHistory[userId]) <= MESSAGE_LOG_CAP
        /\ last.op = "addMessage" =>
              /\ Len(messageHistory[userId]) = IF turns > MESSAGE_LOG_CAP
                                                THEN MESSAGE_LOG_CAP ELSE turns
              /\ \A i \in DOMAIN messageHistory[userId] :
                    messageHistory[userId][i].message
                        = numberText(turns - Len(messageHistory[userId]) + i)

C32_Witness ==
    /\ last.op = "addMessage"
    /\ turns = MESSAGE_LOG_CAP + 2
    /\ Len(messageHistory[last.userId]) = MESSAGE_LOG_CAP
    /\ messageHistory[last.userId][1].message = numberText(3)
    /\ messageHistory[last.userId][1].messageType = "outgoing"

\* The back and the restart keywords as the specification lists them, and
\* the restart keywords with the one more the program knows.
ListedBackKeywords ==
    { <<"0">>, <<"v","o","l","t","a","r">>, <<"b","a","c","k">>,
      <<"a","n","t","e","r","i","o","r">> }

ListedRestartKeywords ==
    { <<"#">>, <<"i","n","i","c","i","o">>, <<"r","e","c","o","m","e","c","a","r">>,
      <<"r","e","s","t","a","r","t">>, <<"s","t","a","r","t">> }

KnownRestartKeywords == ListedRestartKeywords \cup { <<"i","n","i","c","i","a","r">> }

\* The branches of a turn: the back command, the restart command, and the
\* normal processing with its validation and transition.
BackOutcomes == {"back", "back_refused"}

NormalOutcomes == {"rerender", "moved", "retry", "reset"}

\* An answered turn treats the words of back as the back command, the words
\* of restart as the restart command and every other input as a normal turn,
\* and a command leaves the attempts and the data alone.
classifiedBy(word, back, restart) ==
    /\ last.outcome \in BackOutcomes <=> word \in back
    /\ last.outcome = "restart" <=> word \in restart
    /\ last.outcome \in NormalOutcomes <=> word \notin back \cup restart
    /\ last.outcome = "back_refused" =>
          /\ current.attempts = entered.attempts
          /\ current.currentStep = entered.currentStep
          /\ current.data = entered.data

\* C33 as stated: an input is the back command iff its trimmed, lower-cased
\* form is one of 0, voltar, back, anterior, and the restart command iff it
\* is one of #, inicio, recomecar, restart, start; every other input is a
\* normal turn, and a keyword is never validated nor resolved.
C33_KeywordsAreExactlyTheListed ==
    Answered =>
        classifiedBy(toLowerCase(trim(last.message)), ListedBackKeywords, ListedRestartKeywords)

\* C33: an input is the back command iff its sanitized, trimmed, lower-cased
\* form is one of 0, voltar, back, anterior, and the restart command iff it
\* is one of #, inicio, iniciar, recomecar, restart, start; every other
\* input, also one that contains a keyword, is a normal turn, and a keyword
\* is never validated nor resolved.
C33_KeywordsAreExactlyTheKnown ==
    Answered =>
        classifiedBy(toLowerCase(trim(sanitizeInput(last.message))), ListedBackKeywords,
                     KnownRestartKeywords)

C33_Witness ==
    /\ Answered
    /\ last.message = <<"1","0">>
    /\ entered.currentStep = "system_status"
    /\ last.outcome = "moved"
    /\ \E i \in DOMAIN userTrail : userTrail[i].kind = "back" /\ userTrail[i].from = "system_status"

\* The number of digits of a text.
digitCount(s) == Cardinality({i \in DOMAIN s : IsDigit(s[i])})

\* The last call validated an input that is not blank and passes the length
\* checks of its rule, a rule of type 'phone'.
PhoneChecked ==
    /\ last.op = "validateInput"
    /\ flows["system_status"].validation.type = "phone"
    /\ trim(last.message) # <<>>
    /\ \/ flows["system_status"].validation.minLength = 0
       \/ Len(trim(last.message)) >= flows["system_status"].validation.minLength
    /\ \/ flows["system_status"].validation.maxLength = 0
       \/ Len(trim(last.message)) <= flows["system_status"].validation.maxLength

\* Such an input is accepted exactly when the number of its digits lies
\* between least and most and it matches the rule's pattern, if any.
phoneAcceptedWithin(least, most) ==
    last.result <=>
        /\ digitCount(last.message) >= least
        /\ digitCount(last.message) <= most
        /\ \/ flows["system_status"].validation.pattern = "none"
           \/ testPattern(flows["system_status"].validation.pattern, trim(last.message))

\* C34 as stated: a rule of type phone accepts an input that is not empty
\* and passes the length checks exactly when it has between 8 and 11 digits
\* and matches the pattern, if one is supplied.
C34_PhoneHasEightToElevenDigits ==
    PhoneChecked => phoneAcceptedWithin(8, 11)

\* C34: a rule of type phone accepts an input that is not empty and passes
\* the length checks exactly when it has 10 or 11 digits and matches the
\* pattern, if one is supplied.
C34_PhoneHasTenOrElevenDigits ==
    PhoneChecked => phoneAcceptedWithin(10, 11)

C34_Witness ==
    /\ PhoneChecked
    /\ last.message = writtenPhone(11)
    /\ last.result

\* C35: between turns the attempts of every session are at least 0 and
\* below the ceiling of three: the failure that reaches the ceiling resets
\* the session in the same turn.
C35_AttemptsRestBelowTheCeiling ==
    /\ \A userId \in DOMAIN conversations :
           /\ conversations[userId].attempts >= 0
           /\ conversations[userId].attempts < MAX_ATTEMPTS
    /\ IsTurn /\ hasSession(last.before, last.userId) /\ last.outcome \in {"retry", "reset"}
       => (last.outcome = "reset" <=> entered.attempts + 1 >= MAX_ATTEMPTS)

C35_Witness ==
    /\ IsTurn
    /\ last.outcome = "reset"
    /\ hasSession(last.before, last.userId)
    /\ entered.attempts = MAX_ATTEMPTS - 1
    /\ current.attempts = 0

\* The last call was a turn that left a session made anew: it found no
\* session, or it restarted, reset or recovered the one it found.
ReinitialisingTurn ==
    /\ IsTurn
    /\ ~Debounced
    /\ \/ ~hasSession(last.before, last.userId)
       \/ last.outcome \in ReplacingOutcomes

\* The incoming entries of a user's log.
incomingOf(st, userId) ==
    SelectSeq(getMessageHistory(st, userId), LAMBDA msg : msg.messageType = "incoming")

beforeReaper == IF last.op = "cleanupExpiredConversations" THEN last.before ELSE store

\* When the user's previous message arrived (-1 if the state does not tell)
\* and whether it was debounced.
previousMessageAt(userId) ==
    IF IsTurn /\ last.userId = userId THEN now
    ELSE IF incomingOf(beforeReaper, userId) # <<>>
    THEN incomingOf(beforeReaper, userId)[Len(incomingOf(beforeReaper, userId))].timestamp
    ELSE -1

previousWasDebounced(userId) ==
    IF IsTurn /\ last.userId = userId THEN Debounced
    ELSE shouldDebounce(beforeReaper, userId, DEBOUNCE_TIME)

\* The step is one call of processMessage for userId, run on the store of
\* the state it leaves, and the state tells when the message before came.
NextMessageOf(userId) ==
    /\ IsTurn'
    /\ last'.userId = userId
    /\ last'.before = store
    /\ previousMessageAt(userId) >= 0

\* The message of the step is debounced and finds the session where the
\* message before left it.
StaysDebounced(userId) ==
    /\ Debounced'
    /\ hasSession(beforeReaper, userId) =>
          /\ userId \in DOMAIN conversations'
          /\ conversations'[userId].currentStep = beforeReaper.conversations[userId].currentStep
          /\ conversations'[userId].stepHistory = beforeReaper.conversations[userId].stepHistory
          /\ conversations'[userId].attempts = beforeReaper.conversations[userId].attempts

\* C37: a message that comes less than the debounce window after a
\* debounced message is debounced too and leaves the session's step,
\* history and attempts as they were; a message that comes at least the
\* window after the message before it is never debounced.
C37_DebounceChainNeverBreaks ==
    [][\A userId \in Users :
          NextMessageOf(userId) =>
              /\ ( /\ previousWasDebounced(userId)
                   /\ now' - previousMessageAt(userId) < DEBOUNCE_TIME )
                 => StaysDebounced(userId)
              /\ now' - previousMessageAt(userId) >= DEBOUNCE_TIME => ~Debounced']_vars

\* What holds of the chain: it lasts for as long as the reaper has not
\* evicted the session in between.
DebounceChainLastsUntilEviction ==
    [][\A userId \in Users :
          NextMessageOf(userId) =>
              /\ ( /\ previousWasDebounced(userId)
                   /\ now' - previousMessageAt(userId) < DEBOUNCE_TIME
                   /\ hasSession(beforeReaper, userId) => hasSession(store, userId) )
                 => StaysDebounced(userId)
              /\ now' - previousMessageAt(userId) >= DEBOUNCE_TIME => ~Debounced']_vars

\* A debounced message that followed a debounced message, for a session that
\* has left the welcome step.
C37_Witness ==
    /\ Debounced
    /\ shouldDebounce(last.before, last.userId, DEBOUNCE_TIME)
    /\ hasSession(store, last.userId)
    /\ current.currentStep # "welcome"

\* C38: between turns the users that have a session are the users that have
\* a message log, so that the stats activeConversations and totalUsers are
\* equal.
C38_SessionsAndLogsGoTogether ==
    /\ DOMAIN conversations = DOMAIN messageHistory
    /\ getStats(store).activeConversations = getStats(store).totalUsers

\* The reaper has evicted one user, session and log, and left the other.
C38_Witness ==
    /\ last.op = "cleanupExpiredConversations"
    /\ DOMAIN last.before.conversations = FaultUsers
    /\ Cardinality(DOMAIN conversations) = 1
    /\ DOMAIN messageHistory = DOMAIN conversations

\* The calls of the step's action a session's data keeps.
callsOf(state) == IF "calls" \in DOMAIN state.data THEN state.data["calls"] ELSE <<>>

\* The last turn met a session at a step with an action, was not debounced,
\* carried no control keyword, was not the re-rendering of the first menu,
\* and its input passed the step's validation rule, if it has one.
ReachedTheAction ==
    /\ IsTurn
    /\ ~Debounced
    /\ isControlKeyword(sanitizeInput(last.message)).type = "null"
    /\ hasStep(flows, entered.currentStep)
    /\ flows[entered.currentStep].action # "none"
    /\ ~( /\ entered.currentStep = "welcome"
          /\ entered.stepHistory = <<>>
          /\ ~isPositiveIntegerString(trim(sanitizeInput(last.message))) )
    /\ flows[entered.currentStep].validation.present =>
          validateInput(sanitizeInput(last.message),
                        flows[entered.currentStep].validation).isValid

\* C39: a turn calls the step's action at most once, with the sanitized
\* input, and only if it is not debounced, carries no control keyword, is
\* not the re-rendering of the first menu and its input passed the step's
\* validation rule; the action has run when the input then resolves to
\* 'validation_error'.
C39_ActionRunsOnceOnAcceptedTurns ==
    IsTurn /\ hasSession(store, last.userId) /\ last.outcome \notin ReplacingOutcomes =>
        /\ \/ callsOf(current) = callsOf(entered)
           \/ callsOf(current) = Append(callsOf(entered), sanitizeInput(last.message))
        /\ callsOf(current) # callsOf(entered) <=> ReachedTheAction

\* An input the number rule accepts and the menu does not: the action has
\* run and the turn counts a failed attempt.
C39_Witness ==
    /\ ReachedTheAction
    /\ last.outcome = "retry"
    /\ current.currentStep = "tickets_menu"
    /\ callsOf(current) = Append(callsOf(entered), <<"9">>)
    /\ current.attempts = entered.attempts + 1

\* The last turn was heard, its input sanitized to the empty string, and it
\* met a session at a step that has options and no validation rule, other
\* than the first menu of a conversation.
EmptyInputAtOptions ==
    /\ IsTurn
    /\ ~Debounced
    /\ sanitizeInput(last.message) = <<>>
    /\ hasStep(flows, entered.currentStep)
    /\ flows[entered.currentStep].options # <<>>
    /\ ~flows[entered.currentStep].validation.present
    /\ ~(entered.currentStep = "welcome" /\ entered.stepHistory = <<>>)

\* C40: at a step with options and no validation rule, other than the first
\* menu, an input that sanitizes to the empty string selects no option: the
\* turn counts a failed attempt and leaves the current step as it was (or
\* resets the session, if it was the third).
C40_EmptyInputSelectsNoOption ==
    EmptyInputAtOptions =>
        /\ processStepOptions(sanitizeInput(last.message), flows[entered.currentStep])
              = "validation_error"
        /\ last.outcome \in {"retry", "reset"}
        /\ last.outcome = "retry" =>
              /\ current.currentStep = entered.currentStep
              /\ current.attempts = entered.attempts + 1

====
